---- MODULE Spec2Model ----
(***************************************************************************)
(* Incremental change detection of the guru-truth-system pipeline          *)
(* (src/agent/PHASE 1/1_read_sources.py): the IncrementalChangeDetector,   *)
(* its persisted run state, the standalone main() that drives one run, and *)
(* MainOrchestrator (src/agent/PHASE 1/main_orchestrator.py) with its       *)
(* command line.  A deployment runs one of the two entry points.           *)
(* The other programs of the repository follow, each with a specification  *)
(* of its own: card-id pagination (get.py), batch analysis (analyzer.py),  *)
(* the iterative vocabulary (guru_tag_generator.py), and the gap analysis  *)
(* and card consolidation of phase_1_orchestrator.py.                      *)
(*                                                                         *)
(* Strings are atoms in TLC, so every path is a sequence of tokens         *)
(* (directories, stem, extension); a glob pattern is a record that says    *)
(* what pathlib would match.  A ChangeDetection keeps the fields the       *)
(* properties read; timestamp, file_size, commit message and author are    *)
(* not modelled.                                                           *)
(***************************************************************************)
EXTENDS Integers, Sequences, FiniteSets, TLC

VARIABLES
    fs,               \* the working directory: path -> content, NoFile or Unreadable
    repo,             \* the git repository at ".": commits, oldest first
    now,              \* wall clock, in days
    config_file,      \* data_sources_config.json: absent, unparsable, or a list
                      \* of source descriptors
    state_file,       \* change_detector_state.json: absent, unparsable, or a state
    pc,               \* where main() stands
    run,              \* the entry point of the run, its mode, the cards it
                      \* generated and the exit status of the process
    data_sources,     \* detector.data_sources
    last_run_state,   \* detector.last_run_state
    detected_changes, \* detector.detected_changes
    fsAtDetect,       \* history: the working directory detect_all_changes read
    savedAt,          \* history: what the save_current_state that wrote the
                      \* state file read
    seen,             \* history: <<source name, path>> pairs an adapter has observed
    emitted,          \* history: every ChangeDetection returned by an earlier run
    hist,             \* history: what the latest detection read, the state file
                      \* the latest construction met, and how the run before
                      \* this one went
    budget,           \* steps left to the environment and to the runs
    extractor,        \* get.py: the locals of GuruCardExtractor.get_all_card_ids
    analyzer,         \* analyzer.py: GuruCardAnalyzer in analyze_all_cards
    generator,        \* guru_tag_generator.py: GuruTagGenerator in
                      \* generate_iterative_vocabulary
    phase1            \* phase_1_orchestrator.py: Phase1Orchestrator

\* the variables of the change detector and of its entry points
detector == <<fs, repo, now, config_file, state_file, pc, run, data_sources,
              last_run_state, detected_changes, fsAtDetect, savedAt, seen,
              emitted, hist, budget>>

\* the variables of the other programs of the repository
others == <<extractor, analyzer, generator, phase1>>

vars == <<detector, others>>

----------------------------------------------------------------------------
\* Bounds of the model.
\* steps of the environment (file edits, commits, days, configuration edits)
MaxEnvSteps == 2
\* runs of main()
MaxRuns == 2

\* content[:5000]
ContentLimit == 5000
\* timedelta(days=1)
WindowDays == 1
\* "last_run_timestamp": None
NoTimestamp == 0 - 1

----------------------------------------------------------------------------
\* Files and their contents.

Readme == <<"README", ".md">>
DocA == <<"docs/", "a/", "x", ".md">>
DocB == <<"docs/", "b/", "x", ".md">>
FsPaths == {Readme, DocA, DocB}
\* the order in which a directory scan yields the files
PathOrder == <<Readme, DocA, DocB>>

Module == <<"src/", "m", ".py">>
GuideMd == <<"guide", ".md">>
NotesTxt == <<"notes", ".txt">>
GitPathOrder == <<Module, GuideMd, NotesTxt>>

Short == [body |-> "hello", len |-> 5]
Long == [body |-> "manual", len |-> ContentLimit + 1]
Contents == {Short, Long}
NoFile == [body |-> "", len |-> 0 - 1]
Unreadable == [body |-> "", len |-> 0 - 2]
\* a path the commit deleted: git show <sha>:<path> fails
Gone == [body |-> "", len |-> 0 - 3]

Min(a, b) == IF a < b THEN a ELSE b

\* content[:n]
Prefix(content, n) == [body |-> content.body, len |-> Min(content.len, n)]

\* the whole content, where the code takes content[:n]
Whole(content, n) == content

\* content[:5000], the excerpt a ChangeDetection carries
Excerpt(content, n) == Prefix(content, n)

\* hashlib.md5(content.encode()).hexdigest(): a digest of the whole content
Md5(content) ==
    CASE content = Short -> "5d41402abc4b2a76"
      [] content = Long -> "3c2b5f0e9a1d7c44"
      [] OTHER -> "d41d8cd98f00b204"

\* file_path.name
FileName(file_path) == SubSeq(file_path, Len(file_path) - 1, Len(file_path))
\* the directory part of a path
DirOf(file_path) == SubSeq(file_path, 1, Len(file_path) - 2)

IsPrefix(s, t) == Len(s) <= Len(t) /\ SubSeq(t, 1, Len(s)) = s
\* str.endswith
EndsWith(t, s) == Len(s) <= Len(t) /\ SubSeq(t, Len(t) - Len(s) + 1, Len(t)) = s

RECURSIVE Flatten(_)
Flatten(seqs) == IF seqs = <<>> THEN <<>> ELSE Head(seqs) \o Flatten(Tail(seqs))

Range(s) == {s[i] : i \in DOMAIN s}

----------------------------------------------------------------------------
\* Glob patterns of a local_files source.

\* "README.md"
PatReadme == [kind |-> "literal", dir |-> <<>>, recursive |-> FALSE, name |-> Readme]
\* "*.md"
PatRootMd == [kind |-> "glob", dir |-> <<>>, recursive |-> FALSE, name |-> <<"*", ".md">>]
\* "docs/**/*.md"
PatDocsMd == [kind |-> "glob", dir |-> <<"docs/">>, recursive |-> TRUE, name |-> <<"*", ".md">>]
\* "docs/": matches the directory, which is not a file
PatDocsDir == [kind |-> "dir", dir |-> <<"docs/">>, recursive |-> FALSE, name |-> <<>>]
\* "package.json"
PatPackageJson ==
    [kind |-> "literal", dir |-> <<>>, recursive |-> FALSE, name |-> <<"package", ".json">>]
\* "": pathlib raises ValueError("Unacceptable pattern")
PatInvalid == [kind |-> "invalid", dir |-> <<>>, recursive |-> FALSE, name |-> <<>>]

\* whether Path(".").glob(pattern) yields file_path, and it is a file
Matches(pattern, file_path) ==
    CASE pattern.kind = "literal" -> file_path = pattern.name
      [] pattern.kind = "glob" ->
            /\ file_path[Len(file_path)] = pattern.name[2]
            /\ IF pattern.recursive
                  THEN IsPrefix(pattern.dir, DirOf(file_path))
                  ELSE DirOf(file_path) = pattern.dir
      [] OTHER -> FALSE

\* Path(".").glob(pattern) filtered by is_file(), for a valid pattern
Glob(pattern, files) ==
    SelectSeq(PathOrder, LAMBDA p : files[p] # NoFile /\ Matches(pattern, p))

----------------------------------------------------------------------------
\* Source descriptors (DataSourceConfig) and the configurations of the model.

\* file_patterns of a github source: "*.py", "*.md"
CodePatterns ==
    << <<"*", ".py">>, <<"*", ".md">>, <<"*", ".json">>, <<"*", ".yml">>,
       <<"*", ".yaml">> >>

RepoSource ==
    [name |-> "Current Repository", type |-> "github", enabled |-> TRUE,
     path_exists |-> TRUE, paths |-> <<>>, file_patterns |-> CodePatterns]
\* a github source whose "path" does not exist: Repo(path) raises
ArchiveSource ==
    [name |-> "Archive Repository", type |-> "github", enabled |-> TRUE,
     path_exists |-> FALSE, paths |-> <<>>, file_patterns |-> CodePatterns]
\* a github source on the same repository with no "file_patterns"
MirrorSource ==
    [name |-> "Mirror", type |-> "github", enabled |-> TRUE,
     path_exists |-> TRUE, paths |-> <<>>, file_patterns |-> <<>>]
\* "paths": ["docs/", "README.md", "*.md"]
DocsSource ==
    [name |-> "Documentation Files", type |-> "local_files", enabled |-> TRUE,
     path_exists |-> TRUE, paths |-> <<PatDocsDir, PatReadme, PatRootMd>>,
     file_patterns |-> <<>>]
\* "paths": ["docs/**/*.md", "README.md"]
NotesSource ==
    [name |-> "Team Notes", type |-> "local_files", enabled |-> TRUE,
     path_exists |-> TRUE, paths |-> <<PatDocsMd, PatReadme>>,
     file_patterns |-> <<>>]
\* "paths": ["*.md", ""]: the second pattern makes glob raise
ScratchSource ==
    [name |-> "Scratch", type |-> "local_files", enabled |-> TRUE,
     path_exists |-> TRUE, paths |-> <<PatRootMd, PatInvalid>>,
     file_patterns |-> <<>>]
\* "paths": ["package.json", ...]: none of the files of the model
ConfigFilesSource ==
    [name |-> "Configuration Files", type |-> "local_files", enabled |-> TRUE,
     path_exists |-> TRUE, paths |-> <<PatPackageJson>>, file_patterns |-> <<>>]
ChatSource ==
    [name |-> "Team Chat", type |-> "slack", enabled |-> TRUE,
     path_exists |-> TRUE, paths |-> <<>>, file_patterns |-> <<>>]
\* a source whose "type" detect_all_changes does not know
WikiSource ==
    [name |-> "Wiki", type |-> "confluence", enabled |-> TRUE,
     path_exists |-> TRUE, paths |-> <<PatReadme>>, file_patterns |-> <<>>]

Disabled(source) == [source EXCEPT !.enabled = FALSE]
\* "enabled": true in every descriptor
EnableAll(sources) == [i \in DOMAIN sources |-> [sources[i] EXCEPT !.enabled = TRUE]]

CfgDefault == <<RepoSource, DocsSource, NotesSource>>
CfgNotesOff == <<RepoSource, DocsSource, Disabled(NotesSource)>>
CfgArchive == <<ArchiveSource, MirrorSource, RepoSource, WikiSource, DocsSource>>
CfgScratch == <<ScratchSource, ChatSource, DocsSource, NotesSource>>
Configurations == {CfgDefault, CfgNotesOff, CfgArchive, CfgScratch}

\* default_config of create_default_configuration
DefaultConfiguration == <<RepoSource, DocsSource, ConfigFilesSource>>

\* data_sources_config.json
ConfigFile(sources) == [exists |-> TRUE, parses |-> TRUE, data_sources |-> sources]
NoConfigFile == [exists |-> FALSE, parses |-> FALSE, data_sources |-> <<>>]
\* a file json.load rejects
MalformedConfigFile == [exists |-> TRUE, parses |-> FALSE, data_sources |-> <<>>]
ConfigFiles ==
    {ConfigFile(c) : c \in Configurations} \cup {NoConfigFile, MalformedConfigFile}

SourceNames ==
    {RepoSource.name, ArchiveSource.name, MirrorSource.name, DocsSource.name,
     NotesSource.name, ScratchSource.name, ConfigFilesSource.name,
     ChatSource.name, WikiSource.name}

----------------------------------------------------------------------------
\* The git repository.

\* commit.hexsha of the n-th commit
ShaTable == <<"a1f0", "b2e1", "c3d2", "d4c3", "e5b4", "f6a5">>

\* commit.stats.files of the commits the model makes: path -> blob at the commit
CommitShapes ==
    { (Module :> Long @@ NotesTxt :> Short),
      (Module :> Gone @@ GuideMd :> Short) }

Reverse(s) == [i \in 1..Len(s) |-> s[Len(s) + 1 - i]]

\* position of the commit with this hexsha, 0 when the repository has none
IndexOf(commits, hexsha) ==
    IF \E i \in DOMAIN commits : commits[i].hexsha = hexsha
       THEN CHOOSE i \in DOMAIN commits : commits[i].hexsha = hexsha
       ELSE 0

\* the range, had it begun at the stored revision itself
CommitsFrom(commits, hexsha) ==
    Reverse(SubSeq(commits, IndexOf(commits, hexsha), Len(commits)))

\* repo.iter_commits(f"{last_commit_hash}..HEAD"), newest first
CommitsSince(commits, hexsha) ==
    Reverse(SubSeq(commits, IndexOf(commits, hexsha) + 1, Len(commits)))

\* repo.iter_commits(since=now - timedelta(days=1)), newest first
CommitsInWindow(commits, clock) ==
    Reverse(SelectSeq(commits, LAMBDA c : c.time > clock - WindowDays))

----------------------------------------------------------------------------
\* ChangeDetection records.

ChangeDetection(source_name, source_type, change_type, content, file_path, checksum, commit_hash, evidence_id) ==
    [source_name |-> source_name, source_type |-> source_type,
     change_type |-> change_type, content |-> content,
     file_path |-> file_path, checksum |-> checksum,
     commit_hash |-> commit_hash, evidence_id |-> evidence_id]

\* an identifier that also carries the number of the run
FileEvidenceIdOfRun(source_name, checksum, file_path) ==
    <<"file", source_name, checksum, FileName(file_path) \o <<ToString(budget.runs)>> >>

\* f"file_{source.name}_{checksum}_{file_path.name}"
FileEvidenceId(source_name, checksum, file_path) ==
    <<"file", source_name, checksum, FileName(file_path)>>

\* f"git_{source.name}_{commit.hexsha}_{file_path}"
GitEvidenceId(source_name, hexsha, file_path) ==
    <<"git", source_name, hexsha, file_path>>

\* "modified" if str(file_path) in last_checksums else "added"
FileChangeType(file_path, last_checksums) ==
    IF file_path \in DOMAIN last_checksums THEN "modified" ELSE "added"

\* change_type of a record of the git adapter
GitChangeType == "modified"

----------------------------------------------------------------------------
\* _should_process_file

StripStars(pattern) == SelectSeq(pattern, LAMBDA t : t # "*")

\* no allow-list at all
ProcessEveryFile(file_path, patterns) == TRUE

ShouldProcessFile(file_path, patterns) ==
    \/ patterns = <<>>
    \/ \E i \in DOMAIN patterns : EndsWith(file_path, StripStars(patterns[i]))

----------------------------------------------------------------------------
\* _detect_git_changes

\* the records of one commit, had the first file git show cannot read ended
\* the loop over its files
GitCommitChangesUntilError(source, commit) ==
    Flatten([i \in 1..Len(GitPathOrder) |->
        LET file_path == GitPathOrder[i] IN
        IF /\ file_path \in DOMAIN commit.files
           /\ ShouldProcessFile(file_path, source.file_patterns)
           /\ \A j \in 1..i :
                 GitPathOrder[j] \in DOMAIN commit.files =>
                     commit.files[GitPathOrder[j]] # Gone
        THEN << ChangeDetection(source.name, "github_commit", GitChangeType,
                    Excerpt(commit.files[file_path], ContentLimit), file_path,
                    "", commit.hexsha,
                    GitEvidenceId(source.name, commit.hexsha, file_path)) >>
        ELSE <<>>])

\* the records of one commit: one per changed file that passes the filter
\* and that git show can read
GitCommitChanges(source, commit) ==
    Flatten([i \in 1..Len(GitPathOrder) |->
        LET file_path == GitPathOrder[i] IN
        IF /\ file_path \in DOMAIN commit.files
           /\ ShouldProcessFile(file_path, source.file_patterns)
           /\ commit.files[file_path] # Gone
        THEN << ChangeDetection(source.name, "github_commit", GitChangeType,
                    Excerpt(commit.files[file_path], ContentLimit), file_path,
                    "", commit.hexsha,
                    GitEvidenceId(source.name, commit.hexsha, file_path)) >>
        ELSE <<>>])

\* the stored revision of the source, "" when there is none
LastCommitHash(source, state) ==
    IF source.name \in DOMAIN state.git_commit_hashes
       THEN state.git_commit_hashes[source.name]
       ELSE ""

GitCommitsInRange(source, state, env) ==
    IF LastCommitHash(source, state) # ""
       THEN CommitsSince(env.repo, LastCommitHash(source, state))
       ELSE CommitsInWindow(env.repo, env.now)

\* Repo(path) or iter_commits raising is caught inside: the adapter returns []
DetectGitChanges(source, state, env) ==
    IF ~source.path_exists \/ env.repo = <<>>
       THEN <<>>
       ELSE LET commits == GitCommitsInRange(source, state, env) IN
            Flatten([i \in 1..Len(commits) |-> GitCommitChanges(source, commits[i])])

----------------------------------------------------------------------------
\* _detect_file_changes

Readable(files, file_path) == files[file_path] \notin {NoFile, Unreadable}

\* the record of one globbed file, if it is new or modified
FileItemChanges(source, file_path, files, last_checksums) ==
    IF files[file_path] = Unreadable
       THEN <<>>
       ELSE LET content == files[file_path]
                checksum == Md5(content)
            IN  IF \/ file_path \notin DOMAIN last_checksums
                   \/ last_checksums[file_path] # checksum
                THEN << ChangeDetection(source.name, "file_modification",
                            FileChangeType(file_path, last_checksums),
                            Excerpt(content, ContentLimit), file_path, checksum, "",
                            FileEvidenceId(source.name, checksum, file_path)) >>
                ELSE <<>>

PatternChanges(source, pattern, files, last_checksums) ==
    LET found == Glob(pattern, files) IN
    Flatten([i \in 1..Len(found) |->
                FileItemChanges(source, found[i], files, last_checksums)])

HasInvalidPattern(source) ==
    \E i \in DOMAIN source.paths : source.paths[i].kind = "invalid"

\* the files some pattern of the source yields and read_text can read
ObservedFiles(source, files) ==
    {p \in FsPaths : /\ Readable(files, p)
                     /\ \E i \in DOMAIN source.paths : Matches(source.paths[i], p)}

\* current_checksums at the end of the loop
CurrentChecksums(source, files) ==
    [p \in ObservedFiles(source, files) |-> Md5(files[p])]

\* the adapter, had it also reported the stored files that are gone
DetectFileChangesAndDeletions(source, state, files) ==
    [raised |-> HasInvalidPattern(source),
     changes |-> Flatten([i \in 1..Len(PathOrder) |->
                    IF /\ PathOrder[i] \in DOMAIN state.file_checksums
                       /\ files[PathOrder[i]] = NoFile
                    THEN << ChangeDetection(source.name, "file_modification", "deleted",
                                Excerpt(NoFile, ContentLimit), PathOrder[i], "", "",
                                FileEvidenceId(source.name, "", PathOrder[i])) >>
                    ELSE <<>>]),
     state |-> state]

\* the adapter, had it recorded what it read in the "file_checksums" the
\* adapters look up
DetectFileChangesShared(source, state, files) ==
    IF HasInvalidPattern(source)
       THEN [raised |-> TRUE, changes |-> <<>>, state |-> state]
       ELSE [raised |-> FALSE,
             changes |-> Flatten([i \in 1..Len(source.paths) |->
                            PatternChanges(source, source.paths[i], files,
                                           state.file_checksums)]),
             state |-> [state EXCEPT !.file_checksums =
                          CurrentChecksums(source, files) @@ state.file_checksums]]

\* raised: glob raised on a pattern, and the changes collected so far are lost
DetectFileChanges(source, state, files) ==
    IF HasInvalidPattern(source)
       THEN [raised |-> TRUE, changes |-> <<>>, state |-> state]
       ELSE [raised |-> FALSE,
             changes |-> Flatten([i \in 1..Len(source.paths) |->
                            PatternChanges(source, source.paths[i], files,
                                           state.file_checksums)]),
             state |-> [state EXCEPT !.source_checksums =
                          (source.name :>
                             (CurrentChecksums(source, files) @@
                              (IF source.name \in DOMAIN state.source_checksums
                                  THEN state.source_checksums[source.name]
                                  ELSE <<>>))) @@ state.source_checksums]]

----------------------------------------------------------------------------
\* detect_all_changes

KnownTypes == {"github", "local_files", "google_docs", "slack"}

\* no source is passed over
SkippedNever(source) == FALSE

\* if not source.enabled: continue; and the else branch of the types: continue
Skipped(source) == ~source.enabled \/ source.type \notin KnownTypes

\* the adapter of one enabled source of a known type
RunAdapter(source, state, env) ==
    CASE source.type = "github" ->
            [raised |-> FALSE, changes |-> DetectGitChanges(source, state, env),
             state |-> state]
      [] source.type = "local_files" -> DetectFileChanges(source, state, env.fs)
      [] OTHER -> [raised |-> FALSE, changes |-> <<>>, state |-> state]

RECURSIVE DetectSources(_, _, _, _)

\* the loop left by the exception: nothing more is processed
AbortOnAdapterError(sources, changes, state, env) ==
    [changes |-> changes, state |-> state]

\* except Exception: print and go on with the next source
OnAdapterError(sources, changes, state, env) ==
    DetectSources(sources, changes, state, env)

\* the for loop over self.data_sources, from the sources still to visit
DetectSources(sources, changes, state, env) ==
    IF sources = <<>>
       THEN [changes |-> changes, state |-> state]
       ELSE LET source == Head(sources) IN
            IF Skipped(source)
               THEN DetectSources(Tail(sources), changes, state, env)
               ELSE LET r == RunAdapter(source, state, env) IN
                    IF r.raised
                       THEN OnAdapterError(Tail(sources), changes, state, env)
                       ELSE DetectSources(Tail(sources), changes \o r.changes,
                                          r.state, env)

DetectAllChanges(sources, state, env) == DetectSources(sources, <<>>, state, env)

----------------------------------------------------------------------------
\* save_current_state

\* glob is outside the try: an invalid pattern of any local_files source raises
ChecksumsRaise(sources) ==
    \E i \in DOMAIN sources :
        sources[i].type = "local_files" /\ HasInvalidPattern(sources[i])

\* the checksums, had they been taken of the excerpt instead of the content
ChecksumsOfExcerpts(sources, files) ==
    [p \in UNION {ObservedFiles(sources[i], files) :
                    i \in {j \in DOMAIN sources : sources[j].type = "local_files"}}
       |-> Md5(Excerpt(files[p], ContentLimit))]

\* _calculate_current_file_checksums: every local_files source, enabled or not
CalculateCurrentFileChecksums(sources, files) ==
    [p \in UNION {ObservedFiles(sources[i], files) :
                    i \in {j \in DOMAIN sources : sources[j].type = "local_files"}}
       |-> Md5(files[p])]

\* _get_current_git_commits: HEAD of every github source whose repository opens
GetCurrentGitCommits(sources, commits) ==
    [n \in {sources[i].name :
              i \in {j \in DOMAIN sources :
                       /\ sources[j].type = "github"
                       /\ sources[j].path_exists
                       /\ commits # <<>>}}
       |-> commits[Len(commits)].hexsha]

EvidenceIds(changes) == [i \in 1..Len(changes) |-> changes[i].evidence_id]

CurrentState(sources, changes, env) ==
    [last_run_timestamp |-> env.now,
     file_checksums |-> CalculateCurrentFileChecksums(sources, env.fs),
     git_commit_hashes |-> GetCurrentGitCommits(sources, env.repo),
     processed_changes |-> EvidenceIds(changes)]

\* change_detector_state.json
StateFile(data) == [exists |-> TRUE, parses |-> TRUE, data |-> data]
NoStateFile == [exists |-> FALSE, parses |-> FALSE, data |-> <<>>]
\* a file json.load rejects
MalformedStateFile == [exists |-> TRUE, parses |-> FALSE, data |-> <<>>]

\* the state load_last_run_state makes up when there is no file
EmptyState ==
    [last_run_timestamp |-> NoTimestamp, file_checksums |-> <<>>,
     git_commit_hashes |-> <<>>, processed_changes |-> <<>>]

\* the dictionary the detector holds: the loaded keys, and the per-source
\* "file_checksums_<name>" keys the file adapter adds
RunState(data) ==
    [last_run_timestamp |-> data.last_run_timestamp,
     file_checksums |-> data.file_checksums,
     git_commit_hashes |-> data.git_commit_hashes,
     processed_changes |-> data.processed_changes,
     source_checksums |-> <<>>]

\* a missing state file taken for an error
LoadStateOrRaise(file) ==
    IF file.exists /\ file.parses
       THEN [raised |-> FALSE, state |-> RunState(file.data)]
       ELSE [raised |-> TRUE, state |-> RunState(EmptyState)]

\* an unparsable state file taken for no state file
LoadStateOrEmpty(file) ==
    IF file.exists /\ file.parses
       THEN [raised |-> FALSE, state |-> RunState(file.data)]
       ELSE [raised |-> FALSE, state |-> RunState(EmptyState)]

\* load_last_run_state: json.load raises on a file it cannot parse
LoadLastRunState(file) ==
    IF file.exists
       THEN IF file.parses
               THEN [raised |-> FALSE, state |-> RunState(file.data)]
               ELSE [raised |-> TRUE, state |-> RunState(EmptyState)]
       ELSE [raised |-> FALSE, state |-> RunState(EmptyState)]

\* create_default_configuration: the default is written and used
CreateDefaultConfiguration ==
    [raised |-> FALSE, data_sources |-> DefaultConfiguration,
     file |-> ConfigFile(DefaultConfiguration)]

\* load_configuration: json.load raises on a file it cannot parse
LoadConfiguration(file) ==
    IF file.exists
       THEN IF file.parses
               THEN [raised |-> FALSE, data_sources |-> file.data_sources,
                     file |-> file]
               ELSE [raised |-> TRUE, data_sources |-> <<>>, file |-> file]
       ELSE CreateDefaultConfiguration

\* the adapter of the source cannot run: its repository does not open, or
\* one of its glob patterns is rejected
Failing(source) ==
    \/ source.type = "github" /\ ~source.path_exists
    \/ source.type = "local_files" /\ HasInvalidPattern(source)

\* the enabled filesystem sources whose adapter runs to its end
FileSources(sources) ==
    {sources[i] : i \in {j \in DOMAIN sources :
                           /\ sources[j].type = "local_files"
                           /\ sources[j].enabled
                           /\ ~Failing(sources[j])}}

----------------------------------------------------------------------------
\* generate_consolidated_file: _get_change_period takes min() and max() of
\* the timestamps of the records.  A git record carries
\* commit.committed_datetime, which has a time zone; a file record carries
\* datetime.fromtimestamp(st_mtime), which has none; comparing the two raises
\* TypeError.
MixedTimestamps(changes) ==
    /\ \E i \in DOMAIN changes : changes[i].source_type = "github_commit"
    /\ \E i \in DOMAIN changes : changes[i].source_type = "file_modification"

----------------------------------------------------------------------------
\* The entry points: the standalone main() of the detector, and the command
\* line of MainOrchestrator in its normal and its force mode.

Drivers == {"main", "orchestrator"}

\* the configuration files each entry point is started with
Deployments(driver) ==
    IF driver = "main" THEN ConfigFiles ELSE {ConfigFile(CfgDefault)}

\* force_full_analysis: main() has no such mode; --mode force sets it
ForceModes(driver) == IF driver = "main" THEN {FALSE} ELSE BOOLEAN

\* how many cards process_consolidated_file may return
CardCounts == {0, 1}

\* the process has not exited
Running == 0 - 1

\* an exception no handler catches: the interpreter prints it and exits with 1
ExitUncaught == 1

\* an exception raised inside the pipeline: main() of the detector has no
\* handler; main() of the orchestrator catches it and calls exit(2)
ExitOnError(driver) == IF driver = "main" THEN ExitUncaught ELSE 2

\* the pipeline returned: asyncio.run(main()) ends with 0; the orchestrator
\* calls exit(0) when cards were generated and exit(1) when none was
ExitOnReturn(driver, cards) ==
    IF driver = "main" THEN 0 ELSE IF cards > 0 THEN 0 ELSE 1

----------------------------------------------------------------------------
\* The state machine: the environment edits files, commits, lets time pass and
\* edits the configuration and state files; a run is constructed, detects,
\* generates, (generates cards and plans,) saves.

Env == [fs |-> fs, repo |-> repo, now |-> now]

\* where a run ends
\* a program that is not part of the deployment at hand
NotRunning == [pc |-> "not_running"]

Terminal == {"no_changes", "saved", "failed", "config_error", "state_error"}

Init ==
    /\ fs = [p \in FsPaths |-> IF p = Readme THEN Short ELSE NoFile]
    /\ repo = <<>>
    /\ now = 0
    /\ state_file = NoStateFile
    /\ pc = "idle"
    /\ \E d \in Drivers :
          /\ run = [driver |-> d, force |-> FALSE, cards |-> 0, exit_status |-> Running]
          /\ config_file \in Deployments(d)
    /\ data_sources = <<>>
    /\ last_run_state = RunState(EmptyState)
    /\ detected_changes = <<>>
    /\ fsAtDetect = fs
    /\ savedAt = [valid |-> FALSE, fs |-> fs, sources |-> <<>>]
    /\ seen = {}
    /\ emitted = {}
    /\ hist = [detectEnv |-> Env, loaded |-> NoStateFile,
               last |-> [outcome |-> "idle", changes |-> <<>>, env |-> Env,
                         sources |-> <<>>, state_file |-> NoStateFile]]
    /\ budget = [env |-> MaxEnvSteps, runs |-> MaxRuns]
    /\ extractor = NotRunning
    /\ analyzer = NotRunning
    /\ generator = NotRunning
    /\ phase1 = NotRunning

\* The moments at which the environment is let in: between two runs, and
\* between detection and save_current_state (while the consolidated file is
\* being used).  A step taken earlier in a run reads nothing the run has
\* read, so it is the same step taken before the run.
Interleave == {"idle", "generated"}

\* what the environment may make of each file
Versions(p) ==
    CASE p = Readme -> {Short, Long, NoFile}
      [] p = DocA -> {Short, Unreadable, NoFile}
      [] OTHER -> {Short, NoFile}

\* a file is written, created, deleted or made unreadable
EditFile ==
    \E p \in FsPaths : \E c \in Versions(p) :
        /\ pc \in Interleave
        /\ budget.env > 0
        /\ fs[p] # c
        /\ fs' = [fs EXCEPT ![p] = c]
        /\ budget' = [budget EXCEPT !.env = @ - 1]
        /\ UNCHANGED <<repo, now, config_file, state_file, pc, run, data_sources,
                       last_run_state, detected_changes, fsAtDetect, savedAt,
                       seen, emitted, hist>>
    /\ UNCHANGED others

\* a commit lands on HEAD
GitCommit ==
    \E files \in CommitShapes :
        /\ pc \in Interleave
        /\ budget.env > 0
        /\ repo' = Append(repo, [hexsha |-> ShaTable[Len(repo) + 1],
                                 time |-> now, files |-> files])
        /\ budget' = [budget EXCEPT !.env = @ - 1]
        /\ UNCHANGED <<fs, now, config_file, state_file, pc, run, data_sources,
                       last_run_state, detected_changes, fsAtDetect, savedAt,
                       seen, emitted, hist>>
    /\ UNCHANGED others

\* a day passes: the clock is read for the look-back window of the commits
Tick ==
    /\ pc = "idle"
    /\ repo # <<>>
    /\ budget.env > 0
    /\ now' = now + 1
    /\ budget' = [budget EXCEPT !.env = @ - 1]
    /\ UNCHANGED <<fs, repo, config_file, state_file, pc, run, data_sources,
                   last_run_state, detected_changes, fsAtDetect, savedAt,
                   seen, emitted, hist>>
    /\ UNCHANGED others

\* the configuration file is edited between two runs: its disabled sources
\* are enabled
EditConfig ==
    \E c \in {ConfigFile(EnableAll(config_file.data_sources))} :
        /\ pc = "idle"
        /\ budget.env > 0
        /\ config_file.exists /\ config_file.parses
        /\ c # config_file
        /\ config_file' = c
        /\ budget' = [budget EXCEPT !.env = @ - 1]
        /\ UNCHANGED <<fs, repo, now, state_file, pc, run, data_sources,
                       last_run_state, detected_changes, fsAtDetect, savedAt,
                       seen, emitted, hist>>
    /\ UNCHANGED others

\* the state file is removed or damaged between two runs
EditStateFile ==
    \E f \in {NoStateFile, MalformedStateFile} :
        /\ pc = "idle"
        /\ budget.env > 0
        /\ state_file.exists
        /\ f # state_file
        /\ state_file' = f
        /\ savedAt' = [savedAt EXCEPT !.valid = FALSE]
        /\ budget' = [budget EXCEPT !.env = @ - 1]
        /\ UNCHANGED <<fs, repo, now, config_file, pc, run, data_sources,
                       last_run_state, detected_changes, fsAtDetect, seen,
                       emitted, hist>>
    /\ UNCHANGED others

\* IncrementalChangeDetector(), called by main() or by MainOrchestrator():
\* load_configuration, then load_last_run_state; an exception of either
\* leaves the constructor, and the process
Construct ==
    \E force \in ForceModes(run.driver) :
        /\ pc = "idle"
        /\ budget.runs > 0
        /\ LET c == LoadConfiguration(config_file)
               l == LoadLastRunState(state_file)
           IN  /\ config_file' = c.file
               /\ data_sources' = c.data_sources
               /\ last_run_state' = l.state
               /\ pc' = IF c.raised THEN "config_error"
                        ELSE IF l.raised THEN "state_error"
                        ELSE "constructed"
               /\ run' = [driver |-> run.driver, force |-> force, cards |-> 0,
                          exit_status |-> IF c.raised \/ l.raised
                                             THEN ExitUncaught ELSE Running]
        /\ detected_changes' = <<>>
        /\ budget' = [budget EXCEPT !.runs = @ - 1]
        /\ hist' = [hist EXCEPT !.loaded = state_file]
        /\ UNCHANGED <<fs, repo, now, state_file, fsAtDetect, savedAt, seen,
                       emitted>>
    /\ UNCHANGED others

\* the <<source name, path>> pairs the file adapters observe in this detection
ObservedPairs(sources, files) ==
    UNION {{<<s.name, p>> : p \in ObservedFiles(s, files)} : s \in FileSources(sources)}

\* changes = await detector.detect_all_changes()
Detect ==
    /\ pc = "constructed"
    /\ LET r == DetectAllChanges(data_sources, last_run_state, Env) IN
         /\ detected_changes' = r.changes
         /\ last_run_state' = r.state
    /\ fsAtDetect' = fs
    /\ seen' = seen \cup ObservedPairs(data_sources, fs)
    /\ hist' = [hist EXCEPT !.detectEnv = Env]
    /\ pc' = "detected"
    /\ UNCHANGED <<fs, repo, now, config_file, state_file, run, data_sources,
                   savedAt, emitted, budget>>
    /\ UNCHANGED others

\* the return of no changes, had it saved the state on its way out
ReturnNoChangesSaving ==
    /\ pc = "detected"
    /\ detected_changes = <<>>
    /\ ~run.force
    /\ pc' = "no_changes"
    /\ run' = [run EXCEPT !.exit_status = ExitOnReturn(run.driver, 0)]
    /\ state_file' = StateFile(CurrentState(data_sources, detected_changes, Env))
    /\ UNCHANGED <<fs, repo, now, config_file, data_sources, last_run_state,
                   detected_changes, fsAtDetect, savedAt, seen, emitted, hist,
                   budget>>
    /\ UNCHANGED others

\* a caller that holds on to the detector calls detect_all_changes a second
\* time, with no save and no reload in between; what it does with the
\* detector afterwards is not followed
DetectAgain ==
    /\ pc = "detected"
    /\ LET r == DetectAllChanges(data_sources, last_run_state, Env) IN
         /\ detected_changes' = r.changes
         /\ last_run_state' = r.state
    /\ pc' = "redetected"
    /\ UNCHANGED <<fs, repo, now, config_file, state_file, run, data_sources,
                   fsAtDetect, savedAt, seen, emitted, hist, budget>>
    /\ UNCHANGED others

\* if not changes: return None (main); if not changes and not
\* force_full_analysis: return the summary of no cards (orchestrator)
ReturnNoChanges ==
    /\ pc = "detected"
    /\ detected_changes = <<>>
    /\ ~run.force
    /\ pc' = "no_changes"
    /\ run' = [run EXCEPT !.exit_status = ExitOnReturn(run.driver, 0)]
    /\ UNCHANGED <<fs, repo, now, config_file, state_file, data_sources,
                   last_run_state, detected_changes, fsAtDetect, savedAt, seen,
                   emitted, hist, budget>>
    /\ UNCHANGED others

\* generate_consolidated_file(changes)
GenerateConsolidatedFile ==
    /\ pc = "detected"
    /\ detected_changes # <<>> \/ run.force
    /\ ~MixedTimestamps(detected_changes)
    /\ pc' = "generated"
    /\ UNCHANGED <<fs, repo, now, config_file, state_file, run, data_sources,
                   last_run_state, detected_changes, fsAtDetect, savedAt, seen,
                   emitted, hist, budget>>
    /\ UNCHANGED others

\* generate_consolidated_file(changes) raises
GenerateRaises ==
    /\ pc = "detected"
    /\ detected_changes # <<>> \/ run.force
    /\ MixedTimestamps(detected_changes)
    /\ pc' = "failed"
    /\ run' = [run EXCEPT !.exit_status = ExitOnError(run.driver)]
    /\ UNCHANGED <<fs, repo, now, config_file, state_file, data_sources,
                   last_run_state, detected_changes, fsAtDetect, savedAt, seen,
                   emitted, hist, budget>>
    /\ UNCHANGED others

\* the orchestrator: process_consolidated_file and generate_implementation_plan
\* return
ProcessConsolidatedFile ==
    \E n \in CardCounts :
        /\ pc = "generated"
        /\ run.driver = "orchestrator"
        /\ pc' = "planned"
        /\ run' = [run EXCEPT !.cards = n]
        /\ UNCHANGED <<fs, repo, now, config_file, state_file, data_sources,
                       last_run_state, detected_changes, fsAtDetect, savedAt,
                       seen, emitted, hist, budget>>
    /\ UNCHANGED others

\* the orchestrator: card generation or planning raises; except: raise
ProcessRaises ==
    /\ pc = "generated"
    /\ run.driver = "orchestrator"
    /\ pc' = "failed"
    /\ run' = [run EXCEPT !.exit_status = ExitOnError(run.driver)]
    /\ UNCHANGED <<fs, repo, now, config_file, state_file, data_sources,
                   last_run_state, detected_changes, fsAtDetect, savedAt, seen,
                   emitted, hist, budget>>
    /\ UNCHANGED others

\* where the caller stands when it calls save_current_state
BeforeSave(driver) == IF driver = "main" THEN "generated" ELSE "planned"

\* detector.save_current_state(): the state file is rewritten, and the
\* pipeline returns
SaveCurrentState ==
    /\ pc = BeforeSave(run.driver)
    /\ ~ChecksumsRaise(data_sources)
    /\ state_file' = StateFile(CurrentState(data_sources, detected_changes, Env))
    /\ savedAt' = [valid |-> TRUE, fs |-> fs, sources |-> data_sources]
    /\ pc' = "saved"
    /\ run' = [run EXCEPT !.exit_status = ExitOnReturn(run.driver, run.cards)]
    /\ UNCHANGED <<fs, repo, now, config_file, data_sources, last_run_state,
                   detected_changes, fsAtDetect, seen, emitted, hist, budget>>
    /\ UNCHANGED others

\* detector.save_current_state() raises before the file is opened
SaveRaises ==
    /\ pc = BeforeSave(run.driver)
    /\ ChecksumsRaise(data_sources)
    /\ pc' = "failed"
    /\ run' = [run EXCEPT !.exit_status = ExitOnError(run.driver)]
    /\ UNCHANGED <<fs, repo, now, config_file, state_file, data_sources,
                   last_run_state, detected_changes, fsAtDetect, savedAt, seen,
                   emitted, hist, budget>>
    /\ UNCHANGED others

\* the process ends: the detector and what it held are gone
Exit ==
    /\ pc \in Terminal
    /\ pc' = "idle"
    /\ run' = [driver |-> run.driver, force |-> FALSE, cards |-> 0,
               exit_status |-> Running]
    /\ data_sources' = <<>>
    /\ last_run_state' = RunState(EmptyState)
    /\ detected_changes' = <<>>
    /\ emitted' = emitted \cup Range(detected_changes)
    /\ hist' = [hist EXCEPT !.last =
                   [outcome |-> pc, changes |-> detected_changes,
                    env |-> hist.detectEnv, sources |-> data_sources,
                    state_file |-> hist.loaded]]
    /\ UNCHANGED <<fs, repo, now, config_file, state_file, fsAtDetect, savedAt,
                   seen, budget>>
    /\ UNCHANGED others

Next ==
    \/ EditFile
    \/ GitCommit
    \/ Tick
    \/ EditConfig
    \/ EditStateFile
    \/ Construct
    \/ Detect
    \/ DetectAgain
    \/ ReturnNoChanges
    \/ GenerateConsolidatedFile
    \/ GenerateRaises
    \/ ProcessConsolidatedFile
    \/ ProcessRaises
    \/ SaveCurrentState
    \/ SaveRaises
    \/ Exit

Spec == Init /\ [][Next]_vars

----------------------------------------------------------------------------
\* Vocabulary of the properties.

\* the files the detection of this run observed, under any such source
ObservedAtDetect ==
    UNION {ObservedFiles(s, fsAtDetect) : s \in FileSources(data_sources)}

IsFileRecord(r) == r.source_type = "file_modification"

\* positions of the records of this run about the file, of the given type
RecordsOf(p, change_type) ==
    {i \in DOMAIN detected_changes :
        /\ IsFileRecord(detected_changes[i])
        /\ detected_changes[i].file_path = p
        /\ detected_changes[i].change_type = change_type}

\* every record returned so far, by this run or an earlier one
AllRecords == emitted \cup Range(detected_changes)

\* the fingerprint or commit id of a record
Fingerprint(r) == IF IsFileRecord(r) THEN r.checksum ELSE r.commit_hash

\* the detection of this run compared against a store that save_current_state
\* wrote from the same files and the same configuration
SameSnapshot ==
    /\ pc = "detected"
    /\ savedAt.valid
    /\ savedAt.fs = fsAtDetect
    /\ savedAt.sources = data_sources

\* the run was loaded from no state file
EmptyPriorState ==
    /\ last_run_state.last_run_timestamp = NoTimestamp
    /\ last_run_state.file_checksums = <<>>

----------------------------------------------------------------------------
\* C1. Idempotence: once save_current_state has persisted the store from a
\* filesystem snapshot, a detection over the same snapshot and configuration,
\* loaded from that store, returns no record of a filesystem source.
Idempotence ==
    SameSnapshot =>
        \A i \in DOMAIN detected_changes : ~IsFileRecord(detected_changes[i])

\* a second run observed files, all of them recorded by the save before it
IdempotenceWitness ==
    /\ SameSnapshot
    /\ ObservedAtDetect # {}
    /\ \A i \in DOMAIN detected_changes : ~IsFileRecord(detected_changes[i])

\* C2. First-run completeness: with empty prior state, every file an enabled
\* filesystem source matches has exactly one 'added' record, also when two
\* patterns or two sources match it.
FirstRunAddsEachFileOnce ==
    (pc = "detected" /\ EmptyPriorState) =>
        \A p \in ObservedAtDetect : Cardinality(RecordsOf(p, "added")) = 1

\* C3. Modification detection: a file stored with fingerprint F1 whose content
\* now hashes to F2 # F1 gets exactly one 'modified' record in the next run,
\* and the store holds F2 after the run.
ModifiedExactlyOnce ==
    \A p \in ObservedAtDetect :
        (/\ p \in DOMAIN last_run_state.file_checksums
         /\ last_run_state.file_checksums[p] # Md5(fsAtDetect[p]))
        => /\ pc = "detected" => Cardinality(RecordsOf(p, "modified")) = 1
           /\ (pc = "saved" /\ state_file.parses) =>
                 /\ p \in DOMAIN state_file.data.file_checksums
                 /\ state_file.data.file_checksums[p] = Md5(fsAtDetect[p])

\* C4. Partial-failure isolation: detect_all_changes returns what it would
\* return were the failing sources absent from the configuration.
PartialFailureIsolation ==
    pc = "detected" =>
        detected_changes =
            DetectAllChanges(SelectSeq(data_sources, LAMBDA s : ~Failing(s)),
                             last_run_state,
                             [fs |-> fsAtDetect, repo |-> repo, now |-> now]).changes

\* a failing source came first and the sources after it returned records
PartialFailureWitness ==
    /\ pc = "detected"
    /\ data_sources # <<>>
    /\ Failing(Head(data_sources)) /\ Head(data_sources).enabled
    /\ detected_changes # <<>>

\* C5. Reconciler transition rule, read at the end of a run that saved: an
\* observed item that was Added or Modified has a record and its store entry
\* is the observed fingerprint; an Unchanged item has no record and its store
\* entry is as it was.
TransitionRule ==
    (pc = "saved" /\ state_file.parses) =>
        \A p \in ObservedAtDetect :
            LET before == last_run_state.file_checksums
                after == state_file.data.file_checksums
                observed == Md5(fsAtDetect[p])
            IN  IF p \notin DOMAIN before \/ before[p] # observed
                THEN /\ \E i \in DOMAIN detected_changes :
                           /\ IsFileRecord(detected_changes[i])
                           /\ detected_changes[i].file_path = p
                     /\ p \in DOMAIN after /\ after[p] = observed
                ELSE /\ \A i \in DOMAIN detected_changes :
                           ~(/\ IsFileRecord(detected_changes[i])
                             /\ detected_changes[i].file_path = p)
                     /\ p \in DOMAIN after /\ after[p] = before[p]

\* C6. Per-source fingerprints: a path a source has never observed is Added
\* for that source, whatever another source has recorded for the path.
UnseenIsAddedPerSource ==
    [][(pc = "constructed" /\ pc' = "detected") =>
          \A pair \in ObservedPairs(data_sources, fs) \ seen :
              \E i \in DOMAIN detected_changes' :
                  /\ IsFileRecord(detected_changes'[i])
                  /\ detected_changes'[i].source_name = pair[1]
                  /\ detected_changes'[i].file_path = pair[2]
                  /\ detected_changes'[i].change_type = "added"]_vars

\* C7. Unique evidence ids: two records of one run that differ in source,
\* fingerprint or commit, or file identifier have different evidence ids.
EvidenceIdsUnique ==
    \A i, j \in DOMAIN detected_changes :
        LET a == detected_changes[i]
            b == detected_changes[j]
        IN  (\/ a.source_type # b.source_type
             \/ a.source_name # b.source_name
             \/ Fingerprint(a) # Fingerprint(b)
             \/ a.file_path # b.file_path)
            => a.evidence_id # b.evidence_id

\* C8. Deterministic identifiers: records of the same change (same adapter,
\* source, fingerprint or commit, and file), of one run or of different runs,
\* carry the same evidence id.
EvidenceIdsDeterministic ==
    \A a, b \in AllRecords :
        (/\ a.source_type = b.source_type
         /\ a.source_name = b.source_name
         /\ Fingerprint(a) = Fingerprint(b)
         /\ a.file_path = b.file_path)
        => a.evidence_id = b.evidence_id

\* a later run returned a change an earlier run had returned
EvidenceIdsWitness ==
    /\ pc = "detected"
    /\ \E i \in DOMAIN detected_changes :
          \E b \in emitted :
              /\ b.source_type = detected_changes[i].source_type
              /\ b.source_name = detected_changes[i].source_name
              /\ Fingerprint(b) = Fingerprint(detected_changes[i])
              /\ b.file_path = detected_changes[i].file_path

\* C9. Content bounding: the content of every record is at most 5000 long.
ContentBounded ==
    \A r \in AllRecords : r.content.len <= ContentLimit

\* a file adapter and a git adapter each returned a record of a longer content
ContentBoundedWitness ==
    /\ \E r \in AllRecords : IsFileRecord(r) /\ r.checksum = Md5(Long)
    /\ \E r \in AllRecords :
          /\ ~IsFileRecord(r)
          /\ \E i \in DOMAIN repo :
                /\ repo[i].hexsha = r.commit_hash
                /\ repo[i].files[r.file_path] = Long

\* C10. No record is ever 'deleted': every record is 'added' or 'modified'.
NeverDeleted ==
    \A r \in AllRecords : r.change_type \in {"added", "modified"}

\* a detection ran while a file of the loaded store was gone
NeverDeletedWitness ==
    /\ pc = "detected"
    /\ FileSources(data_sources) # {}
    /\ \E p \in DOMAIN last_run_state.file_checksums : fsAtDetect[p] = NoFile

----------------------------------------------------------------------------
\* Vocabulary of the start of a run.

\* the step is the construction of the detector
Constructing == pc = "idle" /\ pc' # "idle"

\* the step is the detection of the run
Detecting == pc = "constructed" /\ pc' = "detected"

\* the process has ended with a failure
Fatal(status) == status # Running /\ status # 0

\* C11. Loading with no state file is not an error: the detector is
\* constructed with no timestamp, no fingerprint and no revision, and the
\* detection that follows reports every file it observes as 'added'.
LoadAbsentStateIsEmpty ==
    [][/\ (Constructing /\ ~state_file.exists /\ pc' # "config_error") =>
             /\ pc' = "constructed"
             /\ last_run_state'.last_run_timestamp = NoTimestamp
             /\ last_run_state'.file_checksums = <<>>
             /\ last_run_state'.git_commit_hashes = <<>>
       /\ (Detecting /\ ~state_file.exists) =>
             \A pair \in ObservedPairs(data_sources, fs) :
                 \E i \in DOMAIN detected_changes' :
                     /\ detected_changes'[i].source_name = pair[1]
                     /\ detected_changes'[i].file_path = pair[2]
                     /\ detected_changes'[i].change_type = "added"]_vars

\* a run with no state file has detected, and observed files
LoadAbsentWitness ==
    /\ pc = "detected"
    /\ ~state_file.exists
    /\ ObservedPairs(data_sources, fsAtDetect) # {}

\* C12. A state file that does not parse is fatal at construction: the
\* process ends with a failure, the file is left as it is, and no adapter
\* runs.
MalformedStateIsFatal ==
    [][/\ (Constructing /\ state_file.exists /\ ~state_file.parses
             /\ pc' # "config_error") =>
             /\ pc' = "state_error"
             /\ Fatal(run'.exit_status)
             /\ state_file' = state_file
       /\ pc = "state_error" =>
             /\ pc' = "idle"
             /\ detected_changes = <<>> /\ detected_changes' = <<>>
             /\ state_file' = state_file]_vars

\* a construction has met a state file that does not parse
MalformedStateWitness ==
    /\ pc = "state_error"
    /\ state_file.exists /\ ~state_file.parses
    /\ Fatal(run.exit_status)

\* C13. ConfigurationError: a missing and a malformed configuration file are
\* both fatal: the run ends at construction and nothing is detected.
ConfigurationErrorIsFatal ==
    [][/\ (Constructing /\ (~config_file.exists \/ ~config_file.parses)) =>
             /\ pc' = "config_error"
             /\ Fatal(run'.exit_status)
       /\ pc = "config_error" =>
             /\ pc' = "idle"
             /\ detected_changes = <<>> /\ detected_changes' = <<>>]_vars

\* C14. A run that detects no change ends cleanly, with exit status 0, from
\* main() of the detector and from the command line of the orchestrator.
ZeroChangesExitsCleanly ==
    pc = "no_changes" => run.exit_status = 0

----------------------------------------------------------------------------
\* Vocabulary of the aggregation.

\* what the adapter of the source returns when it is run on its own against
\* the state the run loaded
AdapterOutput(source) == RunAdapter(source, last_run_state, Env).changes

\* the sources detect_all_changes passes over
PassedOver(source) == ~source.enabled \/ source.type \notin KnownTypes

\* the names under which a file adapter of this run has left its checksums
AdaptersRun == DOMAIN last_run_state.source_checksums

Count(r, changes) == Cardinality({i \in DOMAIN changes : changes[i] = r})

SameMultiset(a, b) ==
    /\ Len(a) = Len(b)
    /\ \A r \in Range(a) : Count(r, a) = Count(r, b)

\* C15. Aggregation: detect_all_changes returns, in the order of the
\* configuration, the records of the adapter of each enabled source, each
\* once; a disabled source and a source of an unknown type add nothing and
\* their adapter is not run.
Aggregation ==
    pc = "detected" =>
        /\ detected_changes =
              Flatten([i \in DOMAIN data_sources |->
                          IF PassedOver(data_sources[i])
                             THEN <<>> ELSE AdapterOutput(data_sources[i])])
        /\ \A i \in DOMAIN data_sources :
              LET source == data_sources[i] IN
              source.name \in AdaptersRun <=>
                  /\ ~PassedOver(source)
                  /\ source.type = "local_files"
                  /\ ~Failing(source)

\* two sources returned records and a source between or after them was
\* passed over
AggregationWitness ==
    /\ pc = "detected"
    /\ \E i, j, k \in DOMAIN data_sources :
          /\ i < j
          /\ ~PassedOver(data_sources[i]) /\ AdapterOutput(data_sources[i]) # <<>>
          /\ ~PassedOver(data_sources[j]) /\ AdapterOutput(data_sources[j]) # <<>>
          /\ PassedOver(data_sources[k])
          /\ data_sources[k].type \in {"local_files", "confluence"}

\* the configuration in another order
Permuted(sources, perm) == [i \in DOMAIN sources |-> sources[perm[i]]]

\* the state the run loaded, before any adapter ran
LoadedState == [last_run_state EXCEPT !.source_checksums = <<>>]

\* C16. Order-insensitivity: the detection of any permutation of the
\* configured sources returns the same multiset of records.
OrderInsensitive ==
    pc = "detected" =>
        \A perm \in Permutations(DOMAIN data_sources) :
            SameMultiset(detected_changes,
                         DetectAllChanges(Permuted(data_sources, perm),
                                          LoadedState, Env).changes)

\* two file sources that observe the same file both returned records
OrderInsensitiveWitness ==
    /\ pc = "detected"
    /\ \E a, b \in DOMAIN detected_changes :
          /\ IsFileRecord(detected_changes[a])
          /\ IsFileRecord(detected_changes[b])
          /\ detected_changes[a].source_name # detected_changes[b].source_name
          /\ detected_changes[a].file_path = detected_changes[b].file_path

----------------------------------------------------------------------------
\* Vocabulary of the adapters.

\* the github sources whose adapter runs and whose repository opens
GitSources(sources) ==
    {sources[i] : i \in {j \in DOMAIN sources :
                           /\ sources[j].type = "github"
                           /\ sources[j].enabled
                           /\ sources[j].path_exists}}

\* positions of the records of this run of the source about the file at the
\* commit
GitRecordsOf(source, hexsha, file_path) ==
    {i \in DOMAIN detected_changes :
        /\ detected_changes[i].source_type = "github_commit"
        /\ detected_changes[i].source_name = source.name
        /\ detected_changes[i].commit_hash = hexsha
        /\ detected_changes[i].file_path = file_path}

\* positions of the records of this run of the file source about the file
FileRecordsOf(source, file_path) ==
    {i \in DOMAIN detected_changes :
        /\ IsFileRecord(detected_changes[i])
        /\ detected_changes[i].source_name = source.name
        /\ detected_changes[i].file_path = file_path}

\* the file is new to the loaded store, or its content has changed
NewOrModified(file_path) ==
    \/ file_path \notin DOMAIN last_run_state.file_checksums
    \/ last_run_state.file_checksums[file_path] # Md5(fsAtDetect[file_path])

\* the commits the adapter of the source went through in this detection
Considered(source) == Range(GitCommitsInRange(source, last_run_state, Env))

\* C17. Item-level isolation: a file that cannot be read, in the working
\* directory or at a commit, is skipped alone: every other new or modified
\* file of the source, and every other readable file of the commit and of the
\* other commits, has its record.
ItemIsolation ==
    pc = "detected" =>
        /\ \A source \in FileSources(data_sources) :
              \A p \in FsPaths :
                  (/\ \E i \in DOMAIN source.paths : Matches(source.paths[i], p)
                   /\ fsAtDetect[p] \in Contents
                   /\ NewOrModified(p))
                  => FileRecordsOf(source, p) # {}
        /\ \A source \in GitSources(data_sources) :
              \A commit \in Considered(source) :
                  \A file_path \in DOMAIN commit.files :
                      (/\ ShouldProcessFile(file_path, source.file_patterns)
                       /\ commit.files[file_path] # Gone)
                      => GitRecordsOf(source, commit.hexsha, file_path) # {}

\* a file source met a file it cannot read and a commit held a file git
\* show cannot read; both adapters returned records of the other items
ItemIsolationWitness ==
    /\ pc = "detected"
    /\ \E source \in FileSources(data_sources) :
          /\ \E p \in FsPaths :
                /\ fsAtDetect[p] = Unreadable
                /\ \E i \in DOMAIN source.paths : Matches(source.paths[i], p)
          /\ \E p \in FsPaths : FileRecordsOf(source, p) # {}
    /\ \E source \in GitSources(data_sources) :
          \E commit \in Considered(source) :
              /\ \E file_path \in DOMAIN commit.files :
                    /\ ShouldProcessFile(file_path, source.file_patterns)
                    /\ commit.files[file_path] = Gone
              /\ \E file_path \in DOMAIN commit.files :
                    GitRecordsOf(source, commit.hexsha, file_path) # {}

\* the path ends with the pattern less its stars, or there is no pattern
AllowListed(file_path, patterns) ==
    \/ Len(patterns) = 0
    \/ \E i \in DOMAIN patterns :
          LET suffix == SelectSeq(patterns[i], LAMBDA t : t # "*")
              n == Len(file_path) - Len(suffix)
          IN  /\ n >= 0
              /\ \A k \in DOMAIN suffix : file_path[n + k] = suffix[k]

\* C18. Git adapter output: a file changed by a commit in range has exactly
\* one record, with the commit and the path, when it is allow-listed and
\* readable, and none otherwise; every git record is of such a file.
GitOutput ==
    pc = "detected" =>
        \A source \in GitSources(data_sources) :
            /\ \A commit \in Considered(source) :
                  \A file_path \in DOMAIN commit.files :
                      Cardinality(GitRecordsOf(source, commit.hexsha, file_path)) =
                          IF /\ AllowListed(file_path, source.file_patterns)
                             /\ commit.files[file_path] # Gone
                          THEN 1 ELSE 0
            /\ \A i \in DOMAIN detected_changes :
                  LET r == detected_changes[i] IN
                  (r.source_type = "github_commit" /\ r.source_name = source.name)
                  => \E commit \in Considered(source) :
                        /\ commit.hexsha = r.commit_hash
                        /\ r.file_path \in DOMAIN commit.files

\* a commit changed a file outside the allow-list of one source, which has
\* no record of it, while a source with no allow-list has one
GitOutputWitness ==
    /\ pc = "detected"
    /\ \E a, b \in GitSources(data_sources) :
          \E commit \in Considered(a) \cap Considered(b) :
              \E file_path \in DOMAIN commit.files :
                  /\ a.file_patterns # <<>>
                  /\ GitRecordsOf(a, commit.hexsha, file_path) = {}
                  /\ b.file_patterns = <<>>
                  /\ GitRecordsOf(b, commit.hexsha, file_path) # {}

\* the revision stored for the source
Stored(source) ==
    IF source.name \in DOMAIN last_run_state.git_commit_hashes
       THEN last_run_state.git_commit_hashes[source.name]
       ELSE ""

\* the positions in the repository of the commits in range: after the stored
\* revision, or inside the look-back window when none is stored
InRange(source) ==
    IF Stored(source) # ""
       THEN {i \in DOMAIN repo :
               \E k \in DOMAIN repo : k < i /\ repo[k].hexsha = Stored(source)}
       ELSE {i \in DOMAIN repo : now - repo[i].time < WindowDays}

\* C19. Commit range: the records of a git source are of the commits after
\* the stored revision, or of the commits inside the look-back window when
\* none is stored, and of all of those that changed a readable allow-listed
\* file; with no commit in range the source has no record, and no error.
CommitRange ==
    pc = "detected" =>
        \A source \in GitSources(data_sources) :
            \A i \in DOMAIN repo :
                (\E file_path \in DOMAIN repo[i].files :
                    GitRecordsOf(source, repo[i].hexsha, file_path) # {})
                <=> /\ i \in InRange(source)
                    /\ \E file_path \in DOMAIN repo[i].files :
                          /\ AllowListed(file_path, source.file_patterns)
                          /\ repo[i].files[file_path] # Gone

\* a revision is stored, a commit after it has a record and the commit of
\* the revision has none
CommitRangeWitness ==
    /\ pc = "detected"
    /\ \E source \in GitSources(data_sources) :
          /\ Stored(source) # ""
          /\ \E i, k \in DOMAIN repo :
                /\ k < i
                /\ repo[k].hexsha = Stored(source)
                /\ \E file_path \in DOMAIN repo[i].files :
                      GitRecordsOf(source, repo[i].hexsha, file_path) # {}
                /\ \A file_path \in DOMAIN repo[k].files :
                      GitRecordsOf(source, repo[k].hexsha, file_path) = {}

----------------------------------------------------------------------------
\* Vocabulary of the end of a run.

\* the step rewrites the state file, and is a step of the run
RunWritesState == pc # "idle" /\ state_file' # state_file

\* the step is save_current_state, called where the entry point calls it:
\* after the consolidated file, and in the orchestrator after the cards and
\* the plan
SavingAtEnd ==
    /\ pc = (IF run.driver = "main" THEN "generated" ELSE "planned")
    /\ pc' = "saved"

\* the run before this one detected and ended without saving, and the files,
\* the repository, the clock, the configuration and the state file are what
\* that run met
AfterUnsavedRun ==
    /\ hist.last.outcome \in {"no_changes", "failed"}
    /\ hist.last.env = Env
    /\ hist.last.sources = data_sources
    /\ hist.last.state_file = state_file

\* C20, as claimed. The state file is written only by the save at the end of
\* a run; a run in which a later step raises, and a run that detected no
\* change, leave it as it was, and the next run detects the same changes.
StateWrittenOnlyAtEnd ==
    [][/\ RunWritesState => (SavingAtEnd /\ detected_changes # <<>>)
       /\ pc' \in {"no_changes", "failed"} => state_file' = state_file
       /\ (Detecting /\ AfterUnsavedRun) => detected_changes' = hist.last.changes]_vars

\* C20, amended. The state file is written only by the save at the end of a
\* run; a run in which a later step raises, and a run that detected no change
\* and is not in force mode, leave it as it was, and the next run detects
\* the same changes.
StateWrittenOnlyAtEndUnlessForced ==
    [][/\ RunWritesState => (SavingAtEnd /\ (detected_changes # <<>> \/ run.force))
       /\ pc' \in {"no_changes", "failed"} => state_file' = state_file
       /\ (Detecting /\ AfterUnsavedRun) => detected_changes' = hist.last.changes]_vars

\* a run has detected the changes of the run before it, which a later step
\* had failed
StateWrittenOnlyAtEndWitness ==
    /\ pc = "detected"
    /\ AfterUnsavedRun
    /\ hist.last.outcome = "failed"
    /\ detected_changes # <<>>
    /\ detected_changes = hist.last.changes

----------------------------------------------------------------------------
\* Vocabulary of two runs in a row.

\* this run follows a run that saved; the state file it wrote and the
\* configuration are as that run left them
AfterSavedRun ==
    /\ hist.last.outcome = "saved"
    /\ savedAt.valid
    /\ hist.last.sources = data_sources

\* the files the detection of the run before this one observed
ObservedBefore ==
    UNION {ObservedFiles(s, hist.last.env.fs) : s \in FileSources(hist.last.sources)}

\* C21. No lost file change: the fingerprint save_current_state persists for
\* a file is the fingerprint the detection of that run observed, and a file
\* whose content is not what the run before observed is 'modified' in this
\* run.
NoLostFileChange ==
    /\ (pc = "saved" /\ state_file.parses) =>
          \A p \in ObservedAtDetect :
              /\ p \in DOMAIN state_file.data.file_checksums
              /\ state_file.data.file_checksums[p] = Md5(fsAtDetect[p])
    /\ (pc = "detected" /\ AfterSavedRun) =>
          \A p \in ObservedAtDetect \cap ObservedBefore :
              Md5(fsAtDetect[p]) # Md5(hist.last.env.fs[p])
              => RecordsOf(p, "modified") # {}

\* C22. No lost commit: a commit that entered the repository after the
\* detection of a run that saved, also before its save, has its records in
\* the next run; and no record of this run is a record of that run.
NoLostCommit ==
    (pc = "detected" /\ AfterSavedRun) =>
        \A source \in GitSources(data_sources) :
            /\ \A i \in DOMAIN repo :
                  (/\ i > Len(hist.last.env.repo)
                   /\ \E file_path \in DOMAIN repo[i].files :
                         /\ AllowListed(file_path, source.file_patterns)
                         /\ repo[i].files[file_path] # Gone)
                  => \E file_path \in DOMAIN repo[i].files :
                        GitRecordsOf(source, repo[i].hexsha, file_path) # {}
            /\ \A i \in DOMAIN detected_changes :
                  detected_changes[i].source_type = "github_commit"
                  => detected_changes[i] \notin Range(hist.last.changes)

\* the files the local_files sources that are enabled match
ExaminedFiles(sources, files) ==
    UNION {ObservedFiles(s, files) : s \in FileSources(sources)}

\* C23. The persisted fingerprints are of files of the sources the detection
\* examined: save_current_state records nothing for the files of a disabled
\* local_files source.
PersistedOnlyExamined ==
    (pc = "saved" /\ state_file.parses) =>
        DOMAIN state_file.data.file_checksums \subseteq ExaminedFiles(data_sources, fs)

\* the step is a call of detect_all_changes
DetectCall == pc \in {"constructed", "detected"} /\ pc' \in {"detected", "redetected"}

\* C24. detect_all_changes leaves the lookup state as it is: it does not
\* change 'file_checksums' nor 'git_commit_hashes', and a second call on the
\* same detector returns the records of the first.
DetectLeavesLookupUnchanged ==
    [][/\ DetectCall =>
             /\ last_run_state'.file_checksums = last_run_state.file_checksums
             /\ last_run_state'.git_commit_hashes = last_run_state.git_commit_hashes
       /\ (pc = "detected" /\ pc' = "redetected") =>
             detected_changes' = detected_changes]_vars

\* a second call has returned file records and git records
DetectTwiceWitness ==
    /\ pc = "redetected"
    /\ \E i \in DOMAIN detected_changes : IsFileRecord(detected_changes[i])
    /\ \E i \in DOMAIN detected_changes : ~IsFileRecord(detected_changes[i])

----------------------------------------------------------------------------
(***************************************************************************)
(* Card-id pagination (src/guru-card-cleaning/get.py):                     *)
(* GuruCardExtractor.get_all_card_ids walks the search endpoint page by    *)
(* page, following the Link header.  The server is the environment: it     *)
(* answers each request with a request error, or with a JSON list and a    *)
(* Link header of its choosing.  The cards of the n-th answer are fixed by *)
(* n, so that the order of the result can be read off it.                  *)
(***************************************************************************)

\* max_pages = 100  # Safety limit to prevent infinite loops
max_pages == 100

\* a limit that is tested one page late
ContinueOneMore(page) == page <= max_pages + 1

\* the while condition of get_all_card_ids
Continue(page) == page <= max_pages

\* the links a Link header may carry
NextLink(n) == [url |-> <<"token", n>>, rel |-> "next-page"]
PrevLink(n) == [url |-> <<"token", n>>, rel |-> "prev-page"]

\* response.headers.get('Link'): None, an empty value, or a list of links;
\* the first page has no page before it
NoLinkHeader == <<>>
LinkHeaders(n) ==
    IF n = 1 THEN {NoLinkHeader, <<NextLink(n + 1)>>}
    ELSE {NoLinkHeader, <<PrevLink(n - 1)>>, <<PrevLink(n - 1), NextLink(n + 1)>>}

\* the JSON list of the n-th answer when it is not empty
CardsOfPage(n) == [j \in 1..(1 + (n % 2)) |-> [id |-> <<n, j>>]]

\* what the server may answer to the n-th request; "error" is whatever makes
\* session.get or raise_for_status raise a RequestException
Responses(n) ==
    {[status |-> "error", cards_data |-> <<>>, link_header |-> NoLinkHeader]}
    \cup {[status |-> "ok", cards_data |-> body, link_header |-> h] :
              body \in {<<>>, CardsOfPage(n)}, h \in LinkHeaders(n)}

\* next_url stays None
NoUrl == <<>>

\* re.search(r'<([^>]+)>;\s*rel="next-page"', link_header): the url of the
\* first link whose rel is next-page, NoUrl when there is none
RECURSIVE NextMatch(_)
NextMatch(link_header) ==
    IF link_header = <<>> THEN NoUrl
    ELSE IF Head(link_header).rel = "next-page" THEN Head(link_header).url
    ELSE NextMatch(Tail(link_header))

\* one pass through the body of the while loop, given the answer of the
\* server: the locals after it, and whether the loop was left by break
Iteration(locals, response) ==
    IF response.status = "error"
    THEN [locals EXCEPT !.broke = TRUE]
    ELSE IF response.cards_data = <<>>
    THEN [locals EXCEPT !.broke = TRUE]
    ELSE LET extended == [locals EXCEPT !.all_cards = @ \o response.cards_data,
                                        !.next_url = NoUrl] IN
         IF response.link_header = NoLinkHeader
         THEN [extended EXCEPT !.broke = TRUE]
         ELSE IF NextMatch(response.link_header) = NoUrl
         THEN [extended EXCEPT !.broke = TRUE]
         ELSE [extended EXCEPT !.next_url = NextMatch(response.link_header),
                               !.page = @ + 1]

\* the detector is not part of this deployment
DetectorNotRunning ==
    /\ fs = [p \in FsPaths |-> NoFile]
    /\ repo = <<>>
    /\ now = 0
    /\ config_file = NoConfigFile
    /\ state_file = NoStateFile
    /\ pc = "not_running"
    /\ run = [driver |-> "main", force |-> FALSE, cards |-> 0, exit_status |-> Running]
    /\ data_sources = <<>>
    /\ last_run_state = RunState(EmptyState)
    /\ detected_changes = <<>>
    /\ fsAtDetect = fs
    /\ savedAt = [valid |-> FALSE, fs |-> fs, sources |-> <<>>]
    /\ seen = {}
    /\ emitted = {}
    /\ hist = [detectEnv |-> Env, loaded |-> NoStateFile,
               last |-> [outcome |-> "idle", changes |-> <<>>, env |-> Env,
                         sources |-> <<>>, state_file |-> NoStateFile]]
    /\ budget = [env |-> 0, runs |-> 0]

\* all_cards = [], page = 1, next_url = None; requests counts the calls of
\* session.get, answers keeps what the server answered (history)
InitExtractor ==
    /\ DetectorNotRunning
    /\ extractor = [pc |-> "loop", all_cards |-> <<>>, page |-> 1,
                    next_url |-> NoUrl, broke |-> FALSE, result |-> <<>>,
                    requests |-> 0, answers |-> <<>>]
    /\ analyzer = NotRunning
    /\ generator = NotRunning
    /\ phase1 = NotRunning

\* one iteration of the while loop: a request and its answer
FetchPage ==
    /\ extractor.pc = "loop"
    /\ ~extractor.broke
    /\ Continue(extractor.page)
    /\ \E response \in Responses(extractor.requests + 1) :
          extractor' = [Iteration(extractor, response) EXCEPT
                            !.requests = @ + 1,
                            !.answers = Append(@, response)]
    /\ UNCHANGED <<detector, analyzer, generator, phase1>>

\* the loop is over: return all_cards
ReturnAllCards ==
    /\ extractor.pc = "loop"
    /\ extractor.broke \/ ~Continue(extractor.page)
    /\ extractor' = [extractor EXCEPT !.pc = "returned", !.result = extractor.all_cards]
    /\ UNCHANGED <<detector, analyzer, generator, phase1>>

NextExtractor ==
    \/ FetchPage
    \/ ReturnAllCards

\* every request is answered, by a response or by an error
SpecExtractor == InitExtractor /\ [][NextExtractor]_vars /\ WF_vars(NextExtractor)

\* the cards of the answers, in the order of the answers
RECURSIVE CardsOf(_)
CardsOf(answers) ==
    IF answers = <<>> THEN <<>>
    ELSE CardsOf(SubSeq(answers, 1, Len(answers) - 1))
         \o answers[Len(answers)].cards_data

\* the answer ends the pagination
Stops(response) ==
    \/ response.status = "error"
    \/ response.cards_data = <<>>
    \/ \A i \in DOMAIN response.link_header : response.link_header[i].rel # "next-page"

\* C25. Card-id pagination terminates: whatever the server answers,
\* get_all_card_ids issues at most 100 requests and then returns; no request
\* follows an error, an empty page or a response without next-page link,
\* and the cards returned are those of the answers so far, in order.
PaginationTerminates ==
    /\ [](/\ extractor.requests <= 100
          /\ \A i \in DOMAIN extractor.answers :
                Stops(extractor.answers[i]) => i = Len(extractor.answers)
          /\ extractor.pc = "returned" => extractor.result = CardsOf(extractor.answers))
    /\ <>(extractor.pc = "returned")

\* the server always names a next page, and the call has returned
PaginationWitness ==
    /\ extractor.pc = "returned"
    /\ extractor.requests = 100
    /\ ~Stops(extractor.answers[100])

----------------------------------------------------------------------------
(***************************************************************************)
(* Batch analysis (src/guru-card-cleaning/analyzer.py):                    *)
(* GuruCardAnalyzer.analyze_all_cards cuts the loaded cards into batches   *)
(* and hands each to analyze_contradictions_batch, which asks the LLM.     *)
(* The LLM is the environment: a call fails, or its content does not       *)
(* parse, or it is a JSON object with some of the three lists.             *)
(***************************************************************************)

\* the most cards loaded, and the largest batch_size
MaxCards == 5
MaxBatchSize == 3

\* cards[i:j] of Python, for 0 <= i
PySlice(cards, i, j) == SubSeq(cards, i + 1, Min(j, Len(cards)))

\* a slice that takes one card too many
BatchWithNeighbour(cards_data, i, batch_size) == PySlice(cards_data, i, i + batch_size + 1)

\* batch = self.cards_data[i:i + batch_size]
Batch(cards_data, i, batch_size) == PySlice(cards_data, i, i + batch_size)

\* the three lists of a result
Categories == {"contradictions", "overlaps", "duplications"}

\* an issue the LLM reports on a batch
Issue(type, cards_chunk, confidence_score) ==
    [type |-> type, card_ids |-> cards_chunk, confidence_score |-> confidence_score]

\* what a call of the LLM may come to: the call raises, the content is not
\* JSON, or it is an object; an object may lack some of the lists
LlmOutcomes(cards_chunk) ==
    {[kind |-> "api_error", result |-> <<>>],
     [kind |-> "bad_json", result |-> <<>>],
     [kind |-> "object", result |-> <<>>],
     [kind |-> "object",
      result |-> [contradictions |-> <<Issue("contradiction", cards_chunk, 9)>>]],
     [kind |-> "object",
      result |-> [contradictions |-> <<>>,
                  overlaps |-> <<Issue("overlap", cards_chunk, 7)>>,
                  duplications |-> <<Issue("duplication", cards_chunk, 8)>>]]}

\* dict.get(key, []) on a result
Get(result, key) == IF key \in DOMAIN result THEN result[key] ELSE <<>>

\* an except branch that reports the failure as a finding
OnBatchErrorReported(cards_chunk) ==
    [contradictions |-> <<Issue("error", cards_chunk, 0)>>, overlaps |-> <<>>,
     duplications |-> <<>>, cards_in_batch |-> cards_chunk]

\* the except branch of analyze_contradictions_batch
OnBatchError(cards_chunk) ==
    [contradictions |-> <<>>, overlaps |-> <<>>, duplications |-> <<>>,
     cards_in_batch |-> cards_chunk]

\* analyze_contradictions_batch: the parsed object, or the result of the
\* except branch
AnalyzeContradictionsBatch(cards_chunk, llm) ==
    IF llm.kind = "object" THEN llm.result ELSE OnBatchError(cards_chunk)

\* len([issue ... if issue.get("confidence_score", 0) >= 8])
HighConfidence(issues) ==
    Cardinality({i \in DOMAIN issues : issues[i].confidence_score >= 8})

\* the cards are loaded; all_results has its three empty lists; analysed
\* keeps each batch with what the LLM made of it (history)
InitAnalyzer ==
    /\ DetectorNotRunning
    /\ extractor = NotRunning
    /\ \E n \in 0..MaxCards : \E batch_size \in 1..MaxBatchSize :
          analyzer = [pc |-> "loop", cards_data |-> [k \in 1..n |-> k],
                      batch_size |-> batch_size, i |-> 0,
                      all_results |-> [c \in Categories |-> <<>>],
                      final_summary |-> <<>>, analysed |-> <<>>]
    /\ generator = NotRunning
    /\ phase1 = NotRunning

\* one pass of the for loop: the batch, its analysis, the merge
AnalyzeBatch ==
    /\ analyzer.pc = "loop"
    /\ analyzer.i < Len(analyzer.cards_data)
    /\ LET batch == Batch(analyzer.cards_data, analyzer.i, analyzer.batch_size) IN
         \E llm \in LlmOutcomes(batch) :
            LET batch_result == AnalyzeContradictionsBatch(batch, llm) IN
            analyzer' = [analyzer EXCEPT
                !.all_results = [c \in Categories |-> @[c] \o Get(batch_result, c)],
                !.i = @ + analyzer.batch_size,
                !.analysed = Append(@, [batch |-> batch, llm |-> llm])]
    /\ UNCHANGED <<detector, extractor, generator, phase1>>

\* the loop is over: the final summary, and the return
FinalSummary ==
    /\ analyzer.pc = "loop"
    /\ analyzer.i >= Len(analyzer.cards_data)
    /\ analyzer' = [analyzer EXCEPT
          !.pc = "returned",
          !.final_summary =
              [total_contradictions |-> Len(analyzer.all_results["contradictions"]),
               total_overlaps |-> Len(analyzer.all_results["overlaps"]),
               total_duplications |-> Len(analyzer.all_results["duplications"]),
               high_confidence_issues |->
                   HighConfidence(analyzer.all_results["contradictions"])
                   + HighConfidence(analyzer.all_results["overlaps"])
                   + HighConfidence(analyzer.all_results["duplications"])]]
    /\ UNCHANGED <<detector, extractor, generator, phase1>>

NextAnalyzer ==
    \/ AnalyzeBatch
    \/ FinalSummary

SpecAnalyzer == InitAnalyzer /\ [][NextAnalyzer]_vars

\* the cards of the batches analysed so far, in the order of the analyses
RECURSIVE CardsAnalysed(_)
CardsAnalysed(analysed) ==
    IF analysed = <<>> THEN <<>>
    ELSE CardsAnalysed(SubSeq(analysed, 1, Len(analysed) - 1))
         \o analysed[Len(analysed)].batch

\* the least number of groups of at most b that hold n
Ceil(n, b) == CHOOSE k \in 0..n : k * b >= n /\ (k = 0 \/ (k - 1) * b < n)

\* C26. Batch partition: the batches are consecutive slices of the card
\* list taken in list order, every card is in exactly one batch, a batch has
\* between 1 and batch_size cards, and ceil(n / batch_size) batches are
\* analysed.
BatchPartition ==
    /\ CardsAnalysed(analyzer.analysed)
         = SubSeq(analyzer.cards_data, 1, Len(CardsAnalysed(analyzer.analysed)))
    /\ \A k \in DOMAIN analyzer.analysed :
          /\ Len(analyzer.analysed[k].batch) >= 1
          /\ Len(analyzer.analysed[k].batch) <= analyzer.batch_size
    /\ analyzer.pc = "returned" =>
          /\ CardsAnalysed(analyzer.analysed) = analyzer.cards_data
          /\ Len(analyzer.analysed) = Ceil(Len(analyzer.cards_data), analyzer.batch_size)

\* the last batch is shorter than the others
BatchPartitionWitness ==
    /\ analyzer.pc = "returned"
    /\ Len(analyzer.analysed) = 3
    /\ Len(analyzer.analysed[3].batch) < Len(analyzer.analysed[1].batch)

\* the batch failed: the call or the parsing raised
Failed(entry) == entry.llm.kind # "object"

\* what the batches analysed so far have reported under a key
RECURSIVE Reported(_, _)
Reported(analysed, key) ==
    IF analysed = <<>> THEN <<>>
    ELSE Reported(SubSeq(analysed, 1, Len(analysed) - 1), key)
         \o (IF Failed(analysed[Len(analysed)]) THEN <<>>
             ELSE Get(analysed[Len(analysed)].llm.result, key))

\* C27. Batch failure isolation: a batch whose call or parsing fails adds
\* nothing to the three lists and stops nothing: every batch is analysed,
\* the lists are what the batches that did not fail reported, and the totals
\* of the final summary are the lengths of the lists.
BatchFailureIsolation ==
    /\ \A c \in Categories : analyzer.all_results[c] = Reported(analyzer.analysed, c)
    /\ analyzer.pc = "returned" =>
          /\ CardsAnalysed(analyzer.analysed) = analyzer.cards_data
          /\ analyzer.final_summary.total_contradictions
               = Len(Reported(analyzer.analysed, "contradictions"))
          /\ analyzer.final_summary.total_overlaps
               = Len(Reported(analyzer.analysed, "overlaps"))
          /\ analyzer.final_summary.total_duplications
               = Len(Reported(analyzer.analysed, "duplications"))

\* a batch failed, and a later batch reported
BatchFailureWitness ==
    /\ analyzer.pc = "returned"
    /\ \E j, k \in DOMAIN analyzer.analysed :
          /\ j < k
          /\ Failed(analyzer.analysed[j])
          /\ ~Failed(analyzer.analysed[k])
          /\ Get(analyzer.analysed[k].llm.result, "overlaps") # <<>>

----------------------------------------------------------------------------
(***************************************************************************)
(* Iterative vocabulary (src/guru-card-cleaning/guru_tag_generator.py):    *)
(* GuruTagGenerator.generate_iterative_vocabulary asks the LLM, batch by   *)
(* batch, for the vocabulary extended by the cards of the batch.  A        *)
(* vocabulary is the parsed JSON object: "categories" maps a category to   *)
(* its tags, a tag to its description.                                     *)
(***************************************************************************)

\* self.batch_size = 25
batch_size == 25

\* the most cards loaded into all_cards
MaxTagCards == 51

\* the empty dict: current_vocabulary at the start, and the result of a
\* batch that failed
EmptyVocabulary == <<>>

\* a tag as the prompt asks for it
Tag(canonical_name, description) ==
    [canonical_name |-> canonical_name, description |-> description]

\* vocabularies the LLM may return: without tags, with one tag, with a
\* second one, with the first one reworded, and one whose tag has no
\* "canonical_name"
VocNoTags == [categories |-> <<>>]
VocOne == [categories |-> [Technical |-> [ML |-> Tag("ML", "models")]]]
VocTwo ==
    [categories |-> [Technical |-> [ML |-> Tag("ML", "models")],
                     HR |-> [Reviews |-> Tag("Reviews", "review process")]]]
VocReworded ==
    [categories |-> [Technical |-> [ML |-> Tag("ML", "models and training")],
                     HR |-> [Reviews |-> Tag("Reviews", "review process")]]]
VocBare == [categories |-> [Technical |-> [ML |-> [description |-> "models"]]]]

\* what a call of the LLM may come to: the request raises, the answer is an
\* API error, its content has no braces, the braces are not JSON, or the
\* JSON parses to an object
VocabularyOutcomes ==
    {[kind |-> k, data |-> EmptyVocabulary] :
        k \in {"request_error", "api_error", "no_json", "bad_json"}}
    \cup {[kind |-> "object", data |-> v] :
             v \in {EmptyVocabulary, VocNoTags, VocOne, VocTwo, VocReworded, VocBare}}

\* _process_vocabulary_batch: the parsed object, {} when anything raised
ProcessVocabularyBatch(llm) ==
    IF llm.kind = "object" THEN llm.data ELSE EmptyVocabulary

\* a test that takes every result for an update
IsNotNone(updated_vocabulary) == TRUE

\* if updated_vocabulary: a dict is true when it is not empty
Truthy(updated_vocabulary) == updated_vocabulary # EmptyVocabulary

\* vocabulary.get("categories", {})
CategoriesOf(vocabulary) ==
    IF "categories" \in DOMAIN vocabulary THEN vocabulary.categories ELSE <<>>

\* tag_info.get("canonical_name", tag_name)
CanonicalName(tag_info, tag_name) ==
    IF "canonical_name" \in DOMAIN tag_info THEN tag_info.canonical_name ELSE tag_name

\* _extract_all_tags, as the set the callers make of it
ExtractAllTags(vocabulary) ==
    LET categories == CategoriesOf(vocabulary) IN
    UNION {{CanonicalName(categories[c][t], t) : t \in DOMAIN categories[c]} :
              c \in DOMAIN categories}

\* _find_tag_in_vocab: the tag of that canonical name, {} when there is none
FindTagInVocab(vocabulary, tag_name) ==
    LET categories == CategoriesOf(vocabulary)
        found == UNION {{categories[c][t] : t \in
                           {u \in DOMAIN categories[c] :
                               /\ "canonical_name" \in DOMAIN categories[c][u]
                               /\ categories[c][u].canonical_name = tag_name}} :
                        c \in DOMAIN categories}
    IN IF found = {} THEN <<>> ELSE CHOOSE tag_info \in found : TRUE

\* _analyze_vocabulary_changes: the VocabularyIteration of a batch
AnalyzeVocabularyChanges(batch_number, batch_cards, vocab_before, vocab_after) ==
    [batch_number |-> batch_number,
     cards_processed |-> batch_cards,
     vocabulary_before |-> vocab_before,
     vocabulary_after |-> vocab_after,
     new_tags_added |-> ExtractAllTags(vocab_after) \ ExtractAllTags(vocab_before),
     tags_modified |->
         {tag \in ExtractAllTags(vocab_before) \cap ExtractAllTags(vocab_after) :
             FindTagInVocab(vocab_before, tag) # FindTagInVocab(vocab_after, tag)}]

\* _process_vocabulary reads tag_info["canonical_name"]: a KeyError when a
\* tag has none
ProcessVocabularyRaises(vocabulary) ==
    \E c \in DOMAIN CategoriesOf(vocabulary) :
        \E t \in DOMAIN CategoriesOf(vocabulary)[c] :
            "canonical_name" \notin DOMAIN CategoriesOf(vocabulary)[c][t]

\* the cards are loaded; current_vocabulary = {}; processed keeps what each
\* batch met (history)
InitGenerator ==
    /\ DetectorNotRunning
    /\ extractor = NotRunning
    /\ analyzer = NotRunning
    /\ \E n \in 0..MaxTagCards :
          generator = [pc |-> "loop", all_cards |-> [k \in 1..n |-> k],
                       batch_num |-> 0,
                       num_batches |-> (n + batch_size - 1) \div batch_size,
                       current_vocabulary |-> EmptyVocabulary,
                       vocabulary_iterations |-> <<>>,
                       result |-> EmptyVocabulary, processed |-> <<>>]
    /\ phase1 = NotRunning

\* one pass of the for loop; the iteration log is a file that may fail to
\* open, and then the exception leaves generate_iterative_vocabulary
ProcessBatch ==
    /\ generator.pc = "loop"
    /\ generator.batch_num < generator.num_batches
    /\ LET start_idx == generator.batch_num * batch_size
           end_idx == Min(start_idx + batch_size, Len(generator.all_cards))
           batch_cards == PySlice(generator.all_cards, start_idx, end_idx)
           vocabulary_before == generator.current_vocabulary
       IN \E llm \in VocabularyOutcomes : \E log_fails \in BOOLEAN :
            LET updated_vocabulary == ProcessVocabularyBatch(llm)
                iteration == AnalyzeVocabularyChanges(generator.batch_num + 1, batch_cards,
                                                      vocabulary_before, updated_vocabulary)
                entry == [batch_number |-> generator.batch_num + 1, llm |-> llm,
                          vocabulary_before |-> vocabulary_before]
            IN IF Truthy(updated_vocabulary)
               THEN IF log_fails
                    THEN generator' = [generator EXCEPT
                            !.pc = "raised",
                            !.vocabulary_iterations = Append(@, iteration),
                            !.processed = Append(@, entry)]
                    ELSE generator' = [generator EXCEPT
                            !.vocabulary_iterations = Append(@, iteration),
                            !.current_vocabulary = updated_vocabulary,
                            !.batch_num = @ + 1,
                            !.processed = Append(@, entry)]
               ELSE /\ ~log_fails
                    /\ generator' = [generator EXCEPT
                            !.batch_num = @ + 1,
                            !.processed = Append(@, entry)]
    /\ UNCHANGED <<detector, extractor, analyzer, phase1>>

\* the loop is over: _process_vocabulary, then return current_vocabulary
ReturnVocabulary ==
    /\ generator.pc = "loop"
    /\ generator.batch_num >= generator.num_batches
    /\ generator' = IF ProcessVocabularyRaises(generator.current_vocabulary)
                    THEN [generator EXCEPT !.pc = "raised"]
                    ELSE [generator EXCEPT !.pc = "returned",
                                           !.result = generator.current_vocabulary]
    /\ UNCHANGED <<detector, extractor, analyzer, phase1>>

NextGenerator ==
    \/ ProcessBatch
    \/ ReturnVocabulary

SpecGenerator == InitGenerator /\ [][NextGenerator]_vars

\* the batch failed: its processing gave the empty result
BatchFailed(entry) == entry.llm.kind # "object" \/ entry.llm.data = EmptyVocabulary

\* the entries of the batches that did not fail, in order
Successful(processed) == SelectSeq(processed, LAMBDA entry : ~BatchFailed(entry))

\* the vocabulary of the last batch that did not fail, {} when every batch
\* failed
LastSuccessful(processed) ==
    IF Successful(processed) = <<>> THEN EmptyVocabulary
    ELSE Successful(processed)[Len(Successful(processed))].llm.data

\* C28. The vocabulary survives a failed batch: after a batch that failed
\* the current vocabulary is the one before it and no VocabularyIteration
\* stands for it; the recorded iterations are those of the batches that did
\* not fail; every batch is processed, and the vocabulary returned is that
\* of the last batch that did not fail.
VocabularyKeptOnFailure ==
    /\ Len(generator.vocabulary_iterations) = Len(Successful(generator.processed))
    /\ \A k \in DOMAIN generator.vocabulary_iterations :
          generator.vocabulary_iterations[k].batch_number
          = Successful(generator.processed)[k].batch_number
    /\ generator.pc = "loop" =>
          /\ generator.current_vocabulary = LastSuccessful(generator.processed)
          /\ Len(generator.processed) = generator.batch_num
    /\ (generator.pc = "loop" /\ generator.processed # <<>>
          /\ BatchFailed(generator.processed[Len(generator.processed)])) =>
          generator.current_vocabulary
          = generator.processed[Len(generator.processed)].vocabulary_before
    /\ generator.pc = "returned" =>
          /\ Len(generator.processed) = generator.num_batches
          /\ generator.result = LastSuccessful(generator.processed)

\* the first batch succeeded, the second failed, the third was processed,
\* and the vocabulary of the first is returned
VocabularyKeptWitness ==
    /\ generator.pc = "returned"
    /\ Len(generator.processed) = 3
    /\ ~BatchFailed(generator.processed[1])
    /\ BatchFailed(generator.processed[2])
    /\ BatchFailed(generator.processed[3])
    /\ generator.result = VocTwo

----------------------------------------------------------------------------
(***************************************************************************)
(* Gap analysis (src/agent/PHASE 1/phase_1_orchestrator.py):               *)
(* Phase1Orchestrator.analyze_data_sources analyses the discovered data    *)
(* sources one by one.  Reading a source and calling the LLM may raise;    *)
(* the LLM answers with a JSON object of its own making; the analysis log  *)
(* is a file that may fail to open.                                        *)
(***************************************************************************)

\* the most data sources discovered
MaxSources == 3

\* DataSource: analysis_status defaults to "pending"
DataSource(k) == [name |-> <<"source", k>>, analysis_status |-> "pending"]

\* JSON null, which json.loads turns into None
Null == <<"null">>

\* a card of an LLM response
CardData(title) == [title |-> title, evidence |-> <<"quote">>]

\* what _analyze_single_source may come to: reading the source or calling
\* the LLM raises, or the LLM answers an object; "knowledge_gaps" is a list
\* or null
AnalysisOutcomes ==
    {[kind |-> "raises", response |-> <<>>]}
    \cup {[kind |-> "response",
           response |-> [cards_identified |-> cards, knowledge_gaps |-> gaps]] :
             cards \in {<<>>, <<CardData("Deploy")>>},
             gaps \in {<<>>, <<"no runbook">>, Null}}

\* _parse_analysis_response: the AnalysisResult of a response
ParseAnalysisResponse(source_name, response) ==
    [data_source |-> source_name,
     cards_identified |->
         [k \in DOMAIN response.cards_identified |->
             [title |-> response.cards_identified[k].title,
              data_sources |-> <<source_name>>,
              evidence_snippets |-> response.cards_identified[k].evidence,
              confidence_score |-> 8]],
     knowledge_gaps |-> response.knowledge_gaps]

\* a log that can always be written
LogNeverRaises(result, io_error) == FALSE

\* _log_analysis_result raises when the file cannot be opened and when
\* len() meets a null
LogRaises(result, io_error) == io_error \/ result.knowledge_gaps = Null

\* the sources are discovered, none is analysed
InitPhase1 ==
    /\ DetectorNotRunning
    /\ extractor = NotRunning
    /\ analyzer = NotRunning
    /\ generator = NotRunning
    /\ \E n \in 0..MaxSources :
          phase1 = [pc |-> "next_source", i |-> 1,
                    data_sources |-> [k \in 1..n |-> DataSource(k)],
                    analysis_results |-> <<>>, raised |-> <<>>]

\* data_source.analysis_status = "analyzing"
BeginAnalysis ==
    /\ phase1.pc = "next_source"
    /\ phase1.i <= Len(phase1.data_sources)
    /\ phase1' = [phase1 EXCEPT !.pc = "analyzing",
                                !.data_sources[phase1.i].analysis_status = "analyzing"]
    /\ UNCHANGED <<detector, extractor, analyzer, generator>>

\* result = await self._analyze_single_source(data_source), then the append
\* and the status "complete"; an exception goes to the except branch
AnalyzeSingleSource ==
    /\ phase1.pc = "analyzing"
    /\ \E outcome \in AnalysisOutcomes :
          IF outcome.kind = "raises"
          THEN phase1' = [phase1 EXCEPT
                  !.pc = "next_source",
                  !.data_sources[phase1.i].analysis_status = "error",
                  !.raised = Append(@, phase1.i),
                  !.i = @ + 1]
          ELSE phase1' = [phase1 EXCEPT
                  !.pc = "logging",
                  !.analysis_results =
                      Append(@, ParseAnalysisResponse(phase1.data_sources[phase1.i].name,
                                                      outcome.response)),
                  !.data_sources[phase1.i].analysis_status = "complete"]
    /\ UNCHANGED <<detector, extractor, analyzer, generator>>

\* self._log_analysis_result(result), inside the same try
LogAnalysisResult ==
    /\ phase1.pc = "logging"
    /\ \E io_error \in BOOLEAN :
          IF LogRaises(phase1.analysis_results[Len(phase1.analysis_results)], io_error)
          THEN phase1' = [phase1 EXCEPT
                  !.pc = "next_source",
                  !.data_sources[phase1.i].analysis_status = "error",
                  !.raised = Append(@, phase1.i),
                  !.i = @ + 1]
          ELSE phase1' = [phase1 EXCEPT !.pc = "next_source", !.i = @ + 1]
    /\ UNCHANGED <<detector, extractor, analyzer, generator>>

\* the for loop is over
AnalysisReturns ==
    /\ phase1.pc = "next_source"
    /\ phase1.i > Len(phase1.data_sources)
    /\ phase1' = [phase1 EXCEPT !.pc = "analyzed"]
    /\ UNCHANGED <<detector, extractor, analyzer, generator>>

NextPhase1 ==
    \/ BeginAnalysis
    \/ AnalyzeSingleSource
    \/ LogAnalysisResult
    \/ AnalysisReturns

SpecPhase1 == InitPhase1 /\ [][NextPhase1]_vars

\* the sources of that status
WithStatus(status) ==
    {k \in DOMAIN phase1.data_sources : phase1.data_sources[k].analysis_status = status}

\* C29. Status machine of the data sources: a source is 'pending' until its
\* analysis begins, 'analyzing' while it runs, and 'complete' or 'error'
\* afterwards; once analyze_data_sources has returned no source is 'pending'
\* or 'analyzing', a source that raised has not kept the later ones from
\* being analysed, and the sources that are 'complete' are as many as the
\* AnalysisResults.
StatusMachine ==
    /\ \A k \in DOMAIN phase1.data_sources :
          /\ k > phase1.i => phase1.data_sources[k].analysis_status = "pending"
          /\ k < phase1.i => phase1.data_sources[k].analysis_status \in {"complete", "error"}
          /\ (k = phase1.i /\ phase1.pc = "next_source")
               => phase1.data_sources[k].analysis_status = "pending"
          /\ (k = phase1.i /\ phase1.pc = "analyzing")
               => phase1.data_sources[k].analysis_status = "analyzing"
    /\ phase1.pc = "analyzed" =>
          /\ WithStatus("pending") \cup WithStatus("analyzing") = {}
          /\ Cardinality(WithStatus("complete")) = Len(phase1.analysis_results)

----------------------------------------------------------------------------
(***************************************************************************)
(* Card consolidation (src/agent/PHASE 1/phase_1_orchestrator.py):         *)
(* Phase1Orchestrator._deduplicate_cards, applied to a list of             *)
(* CardRequirements and then to its own result.  A title is a sequence of  *)
(* characters; confidence_score is in tenths.                              *)
(***************************************************************************)

\* the longest list of cards handed to _deduplicate_cards
MaxInputCards == 3

\* str.lower() on the characters the titles use
LowerChar(c) ==
    CASE c = "D" -> "d"
      [] c = "B" -> "b"
      [] c = "A" -> "a"
      [] c = "P" -> "p"
      [] c = "I" -> "i"
      [] OTHER -> c

Lower(title) == [k \in DOMAIN title |-> LowerChar(title[k])]

\* the characters str.strip() removes
Whitespace == {" ", "\t"}

\* str.strip(): the title without the whitespace at its two ends
RECURSIVE Strip(_)
Strip(title) ==
    IF title = <<>> THEN <<>>
    ELSE IF Head(title) \in Whitespace THEN Strip(Tail(title))
    ELSE IF title[Len(title)] \in Whitespace THEN Strip(SubSeq(title, 1, Len(title) - 1))
    ELSE title

\* a comparison that is blind to case only
LowerOnly(title) == Lower(title)

\* normalized_title = card.title.lower().strip()
NormalizedTitle(title) == Strip(Lower(title))

\* CardRequirement, the fields _deduplicate_cards reads and writes
CardRequirement(title, sources, evidence_snippets, confidence_score) ==
    [title |-> title, data_sources |-> sources,
     evidence_snippets |-> evidence_snippets, confidence_score |-> confidence_score]

\* the cards the lists are made of
CardPool ==
    {CardRequirement(<<"D", "b">>, <<"repo">>, <<"e1">>, 8),
     CardRequirement(<<" ", "d", "b", "\t">>, <<"docs">>, <<"e2">>, 9),
     CardRequirement(<<"d", " ", "b">>, <<"wiki">>, <<>>, 5),
     CardRequirement(<<"A", "P", "I">>, <<"repo">>, <<"e1">>, 5),
     CardRequirement(<<"a", "p", "i", " ">>, <<"docs", "wiki">>, <<"e3">>, 8),
     CardRequirement(<<"d", "b">>, <<"repo">>, <<"e1">>, 5)}

\* max() of two scores
Max(a, b) == IF a >= b THEN a ELSE b

\* the position in unique_cards of the card kept under that normalized
\* title, 0 when there is none
KeyIndex(unique_cards, normalized_title) ==
    IF \E k \in DOMAIN unique_cards : NormalizedTitle(unique_cards[k].title) = normalized_title
    THEN CHOOSE k \in DOMAIN unique_cards :
             NormalizedTitle(unique_cards[k].title) = normalized_title
    ELSE 0

\* the body of the for loop: merge the card into the one kept under its
\* normalized title, or keep it; the dict keeps its keys in insertion order
MergeCard(unique_cards, card) ==
    LET k == KeyIndex(unique_cards, NormalizedTitle(card.title)) IN
    IF k # 0
    THEN [unique_cards EXCEPT
             ![k].data_sources = @ \o card.data_sources,
             ![k].evidence_snippets = @ \o card.evidence_snippets,
             ![k].confidence_score = Max(@, card.confidence_score)]
    ELSE Append(unique_cards, card)

\* _deduplicate_cards: list(unique_cards.values())
RECURSIVE DeduplicateCards(_)
DeduplicateCards(cards) ==
    IF cards = <<>> THEN <<>>
    ELSE MergeCard(DeduplicateCards(SubSeq(cards, 1, Len(cards) - 1)), cards[Len(cards)])

\* the lists of at most n cards
RECURSIVE CardLists(_)
CardLists(n) ==
    IF n = 0 THEN {<<>>}
    ELSE CardLists(n - 1)
         \cup {Append(cards, card) : cards \in {l \in CardLists(n - 1) : Len(l) = n - 1},
                                     card \in CardPool}

\* a list of cards is at hand
InitDeduplicate ==
    /\ DetectorNotRunning
    /\ extractor = NotRunning
    /\ analyzer = NotRunning
    /\ generator = NotRunning
    /\ \E cards \in CardLists(MaxInputCards) :
          phase1 = [pc |-> "collected", all_cards |-> cards,
                    consolidated_cards |-> <<>>, again |-> <<>>]

\* consolidated_cards = self._deduplicate_cards(all_cards)
Deduplicate ==
    /\ phase1.pc = "collected"
    /\ phase1' = [phase1 EXCEPT !.pc = "deduplicated",
                                !.consolidated_cards = DeduplicateCards(phase1.all_cards)]
    /\ UNCHANGED <<detector, extractor, analyzer, generator>>

\* _deduplicate_cards applied to its own result
DeduplicateAgain ==
    /\ phase1.pc = "deduplicated"
    /\ phase1' = [phase1 EXCEPT !.pc = "deduplicated_again",
                                !.again = DeduplicateCards(phase1.consolidated_cards)]
    /\ UNCHANGED <<detector, extractor, analyzer, generator>>

NextDeduplicate ==
    \/ Deduplicate
    \/ DeduplicateAgain

SpecDeduplicate == InitDeduplicate /\ [][NextDeduplicate]_vars

\* a title without its case and without the whitespace around it, said
\* without the code: the longest piece of the lower-cased title that neither
\* begins nor ends with whitespace and has only whitespace around it
Trimmed(title) ==
    LET lower == [k \in DOMAIN title |-> LowerChar(title[k])]
        inked == {k \in DOMAIN lower : lower[k] \notin Whitespace}
    IN IF inked = {} THEN <<>>
       ELSE LET first == CHOOSE k \in inked : \A j \in inked : k <= j
                last == CHOOSE k \in inked : \A j \in inked : k >= j
            IN SubSeq(lower, first, last)

\* the input cards of that title, by position
Titled(cards, t) == {k \in DOMAIN cards : Trimmed(cards[k].title) = t}

\* C30. Deduplication of card requirements: the result has one card for
\* each normalized title of the input, the first of that title in input
\* order; its data_sources and evidence_snippets hold those of every input
\* card of that title, its confidence_score is the greatest of theirs; and
\* _deduplicate_cards leaves its own result as it is.
DeduplicationLaw ==
    /\ phase1.pc \in {"deduplicated", "deduplicated_again"} =>
          LET cards == phase1.all_cards
              out == phase1.consolidated_cards
              titles == {Trimmed(cards[k].title) : k \in DOMAIN cards}
          IN /\ Len(out) = Cardinality(titles)
             /\ \A t \in titles :
                   \E k \in DOMAIN out :
                      LET first == CHOOSE i \in Titled(cards, t) :
                                       \A j \in Titled(cards, t) : i <= j
                      IN /\ out[k].title = cards[first].title
                         /\ \A j \in Titled(cards, t) :
                               /\ Range(cards[j].data_sources) \subseteq Range(out[k].data_sources)
                               /\ Range(cards[j].evidence_snippets)
                                    \subseteq Range(out[k].evidence_snippets)
                               /\ cards[j].confidence_score <= out[k].confidence_score
                         /\ \E j \in Titled(cards, t) :
                               cards[j].confidence_score = out[k].confidence_score
    /\ phase1.pc = "deduplicated_again" => phase1.again = phase1.consolidated_cards

\* three cards of one normalized title, written in three ways, have been
\* merged, and the result has been deduplicated once more
DeduplicationWitness ==
    /\ phase1.pc = "deduplicated_again"
    /\ Len(phase1.all_cards) = 3
    /\ Len(phase1.consolidated_cards) = 1
    /\ Cardinality({phase1.all_cards[k].title : k \in 1..3}) = 3
    /\ phase1.consolidated_cards[1].confidence_score > phase1.all_cards[1].confidence_score

====
